---- MODULE Spec2Model ----
(***************************************************************************)
(* A model of the angle core of the interactive trigonometry tool: the     *)
(* Angle value type, the central store, the drag handler and the angle     *)
(* controls.                                                               *)
(*                                                                         *)
(* Numbers.  A JavaScript number is a binary floating-point value.  The    *)
(* model keeps the shape of that arithmetic at a reduced width: a number   *)
(* is an integer count of units of 1/Scale, and every operation that       *)
(* rounds in the code rounds here to MantBits significant bits, to nearest *)
(* and ties to even (Fl).  The remainder operator % is exact, as it is in  *)
(* IEEE-754.                                                               *)
(***************************************************************************)
EXTENDS Integers, Sequences, FiniteSets, TLC

VARIABLES
    \* ---- the store (state/store.ts)
    currentAngle, angleUnit, activeView, selectedFormula, difficultyLevel,
    formulaViewMode, enabledFormulas

VARIABLES
    \* ---- the drag handler (interactions/DragHandler.ts) and its environment
    isDragging,        \* state.isDragging
    animationFrameId,  \* state.animationFrameId, Null or a request id
    lastUpdateTime,    \* state.lastUpdateTime
    now,               \* performance.now(), in clock ticks
    frames,            \* the browser's outstanding animation-frame callbacks
    nextFrameId,       \* the id the next requestAnimationFrame returns
    calls,             \* the calls made to onAngleChange, oldest first
    event,             \* the last pointer event a listener acted on
    ups,               \* the pointer-up events handlePointerUp acted on
    attached,          \* the listeners are registered (no cleanup yet)
    captured,          \* the pointer ids the SVG element has captured
    ignoredDown        \* the last pointer-down dispatched was not acted on

storeVars == << currentAngle, angleUnit, activeView, selectedFormula,
                difficultyLevel, formulaViewMode, enabledFormulas >>

dragVars == << isDragging, animationFrameId, lastUpdateTime, now, frames,
               nextFrameId, calls, event, ups, attached, captured,
               ignoredDown >>

VARIABLES
    \* ---- the angle controls (components/AngleControls) and their environment
    wasAtMax,          \* useState: the slider was at its maximum
    inputValue,        \* useState: the text of the angle field
    inputError,        \* useState: the inline error, or NoError
    userMessage,       \* useState: the message shown, or NoMessage
    isInputFocused,    \* isInputFocusedRef.current
    focused,           \* the angle field has the focus
    timers,            \* the pending setTimeout callbacks, oldest first
    rendered,          \* the effects' dependencies at the last render
    angleChanged,      \* the store holds an Angle object not yet rendered
    accepted           \* the number of texts committed and accepted so far

controlVars == << wasAtMax, inputValue, inputError, userMessage, isInputFocused,
                  focused, timers, rendered, angleChanged, accepted >>

VARIABLES
    \* ---- one call of a pure function of the core: its name, its arguments
    \* and what it returned
    calc

calcVars == << calc >>

VARIABLES
    \* ---- components/FormulaView
    unticked,          \* the formulas the user unticked and has not ticked since
    \* ---- components/UnitCircleView
    wasDragging,       \* the wasDragging state of the component
    effectIsDragging,  \* the isDragging local of the drag effect
    resetTimers        \* the setTimeout(0) callbacks of the effect not yet run

formulaViewVars == << unticked >>
circleViewVars == << wasDragging, effectIsDragging, resetTimers >>
viewVars == << formulaViewVars, circleViewVars >>

vars == << storeVars, dragVars, controlVars, calcVars, viewVars >>

-----------------------------------------------------------------------------
(* Numbers *)

\* Units per 1.0: four decimals, the finest the code formats (toFixed(4)).
Scale == 10^4

\* Significant bits kept by Fl.
MantBits == 15

Abs(n) == IF n < 0 THEN -n ELSE n

RECURSIVE BitLen(_)
BitLen(n) == IF n = 0 THEN 0 ELSE 1 + BitLen(n \div 2)

\* The spacing of the representable numbers around magnitude n.
Ulp(n) == IF BitLen(n) <= MantBits THEN 1 ELSE 2^(BitLen(n) - MantBits)

\* n >= 0 rounded to the nearest multiple of u, ties to the even multiple.
RoundToMultiple(n, u) ==
    LET q == n \div u
        r == n % u
    IN  IF 2 * r < u THEN q * u
        ELSE IF 2 * r > u THEN (q + 1) * u
        ELSE IF q % 2 = 0 THEN q * u ELSE (q + 1) * u

\* The floating-point rounding of the exact value n.
Fl(n) == IF n < 0 THEN -RoundToMultiple(-n, Ulp(-n)) ELSE RoundToMultiple(n, Ulp(n))

\* The exact quotient a * num / den rounded as one floating-point product.
MulRatio(a, num, den) ==
    LET p == Abs(a) * num
        q == RoundToMultiple(p, den) \div den
    IN  Fl(IF a < 0 THEN -q ELSE q)

\* JavaScript's %: the remainder takes the sign of the dividend and is exact.
Rem(a, m) == IF a < 0 THEN -((-a) % m) ELSE a % m

-----------------------------------------------------------------------------
(* core/Angle *)

Units == {"radians", "degrees"}

\* Math.PI, to four decimals.
PI == 31416
TWO_PI == 2 * PI

\* DEGREES_TO_RADIANS = PI / 180 as the ratio 71 / 4068 (0.0174533), and
\* RADIANS_TO_DEGREES = 180 / PI as its inverse.
DegToRadNum == 71
DegToRadDen == 4068

FullTurnDeg == 360 * Scale

\* new Angle(value, unit): the constructor stores both fields.
Angle(value, unit) == [value |-> value, unit |-> unit]

toRadians(a) ==
    IF a.unit = "radians" THEN a.value
    ELSE MulRatio(a.value, DegToRadNum, DegToRadDen)

toDegrees(a) ==
    IF a.unit = "degrees" THEN a.value
    ELSE MulRatio(a.value, DegToRadDen, DegToRadNum)

\* Angle.normalize: value % full turn, plus one full turn when negative.
normalize(a) ==
    LET full == IF a.unit = "radians" THEN TWO_PI ELSE FullTurnDeg
        r    == Rem(a.value, full)
    IN  Angle(IF r < 0 THEN Fl(r + full) ELSE r, a.unit)

ZERO == Angle(0, "radians")
fromDegrees(d) == Angle(d, "degrees")
fromRadians(r) == Angle(r, "radians")

-----------------------------------------------------------------------------
(* state/store.ts *)

ActiveViews      == {"unitCircle", "graphs", "table", "formulas"}
DifficultyLevels == {"highSchool", "college", "graduate"}
FormulaViewModes == {"single", "multiple", "hybrid"}
FormulaIds       == {"pythagorean", "doubleAngle"}
NoFormula        == "null"

uiVars == << activeView, selectedFormula, difficultyLevel, formulaViewMode,
             enabledFormulas >>

initialState ==
    /\ currentAngle = ZERO
    /\ angleUnit = "radians"
    /\ activeView = "unitCircle"
    /\ selectedFormula = NoFormula
    /\ difficultyLevel = "highSchool"
    /\ formulaViewMode = "hybrid"
    /\ enabledFormulas = {}

setAngle(angle) ==
    /\ currentAngle' = normalize(angle)
    /\ UNCHANGED << angleUnit, uiVars >>

\* setAngleUnit that keeps the number and only relabels its unit.
setAngleUnitRelabelling(unit) ==
    IF angleUnit = unit
    THEN UNCHANGED storeVars
    ELSE /\ angleUnit' = unit
         /\ currentAngle' = normalize(Angle(currentAngle.value, unit))
         /\ UNCHANGED uiVars

setAngleUnit(unit) ==
    IF angleUnit = unit
    THEN UNCHANGED storeVars
    ELSE LET currentRadians == toRadians(currentAngle)
             newAngle ==
                 IF unit = "radians"
                 THEN Angle(currentRadians, "radians")
                 ELSE Angle(MulRatio(currentRadians, DegToRadDen, DegToRadNum),
                            "degrees")
         IN  /\ angleUnit' = unit
             /\ currentAngle' = normalize(newAngle)
             /\ UNCHANGED uiVars

setActiveView(view) ==
    /\ activeView' = view
    /\ UNCHANGED << currentAngle, angleUnit, selectedFormula, difficultyLevel,
                    formulaViewMode, enabledFormulas >>

setSelectedFormula(formula) ==
    /\ selectedFormula' = formula
    /\ UNCHANGED << currentAngle, angleUnit, activeView, difficultyLevel,
                    formulaViewMode, enabledFormulas >>

\* setDifficultyLevel that also clears the formulas enabled so far.
setDifficultyLevelClearingFormulas(level) ==
    /\ difficultyLevel' = level
    /\ enabledFormulas' = {}
    /\ UNCHANGED << currentAngle, angleUnit, activeView, selectedFormula,
                    formulaViewMode >>

setDifficultyLevel(level) ==
    /\ difficultyLevel' = level
    /\ UNCHANGED << currentAngle, angleUnit, activeView, selectedFormula,
                    formulaViewMode, enabledFormulas >>

setFormulaViewMode(mode) ==
    /\ formulaViewMode' = mode
    /\ UNCHANGED << currentAngle, angleUnit, activeView, selectedFormula,
                    difficultyLevel, enabledFormulas >>

toggleFormula(formulaId) ==
    /\ enabledFormulas' = IF formulaId \in enabledFormulas
                          THEN enabledFormulas \ {formulaId}
                          ELSE enabledFormulas \cup {formulaId}
    /\ UNCHANGED << currentAngle, angleUnit, activeView, selectedFormula,
                    difficultyLevel, formulaViewMode >>

setFormulaEnabled(formulaId, enabled) ==
    /\ enabledFormulas' = IF enabled
                          THEN enabledFormulas \cup {formulaId}
                          ELSE enabledFormulas \ {formulaId}
    /\ UNCHANGED << currentAngle, angleUnit, activeView, selectedFormula,
                    difficultyLevel, formulaViewMode >>

\* The angles the store's callers pass to setAngle: every value below is a
\* representable number.  Tiny is the smallest positive number.
Tiny == 1
AngleValues ==
    { Fl(v) : v \in { -Tiny, 0, Tiny, 30 * Scale, -30 * Scale, 90 * Scale,
                      FullTurnDeg - 32, FullTurnDeg, 450 * Scale,
                      PI \div 2, PI, TWO_PI - 1, TWO_PI, 3 * PI, -PI } }
AngleInputs == { Angle(v, u) : v \in AngleValues, u \in Units }

StoreSetAngle ==
    \E a \in AngleInputs : setAngle(a) /\ UNCHANGED << dragVars, controlVars, calcVars, viewVars >>
StoreSetAngleUnit ==
    \E u \in Units : setAngleUnit(u) /\ UNCHANGED << dragVars, controlVars, calcVars, viewVars >>
StoreSetActiveView ==
    \E v \in ActiveViews : setActiveView(v) /\ UNCHANGED << dragVars, controlVars, calcVars, viewVars >>
StoreSetSelectedFormula ==
    \E f \in FormulaIds \cup {NoFormula} : setSelectedFormula(f) /\ UNCHANGED << dragVars, controlVars, calcVars, viewVars >>
StoreSetDifficultyLevel ==
    \E l \in DifficultyLevels : setDifficultyLevel(l) /\ UNCHANGED << dragVars, controlVars, calcVars, viewVars >>
StoreSetFormulaViewMode ==
    \E m \in FormulaViewModes : setFormulaViewMode(m) /\ UNCHANGED << dragVars, controlVars, calcVars, viewVars >>
StoreToggleFormula ==
    \E f \in FormulaIds : toggleFormula(f) /\ UNCHANGED << dragVars, controlVars, calcVars, viewVars >>
StoreSetFormulaEnabled ==
    \E f \in FormulaIds, e \in BOOLEAN : setFormulaEnabled(f, e) /\ UNCHANGED << dragVars, controlVars, calcVars, viewVars >>

-----------------------------------------------------------------------------
(* utils/coordinateUtils and constants/svgConstants *)

SVG_CENTER_X == 200
SVG_CENTER_Y == 200
SVG_RADIUS   == 150
SVG_SIZE     == 400

\* ANGLE_TOLERANCE = 0.0001
ANGLE_TOLERANCE == Scale \div 10000

\* A whole number of pixels as a number.
Px(n) == Fl(n * Scale)

\* Math.sqrt of the exact value n / Scale^2, to the nearest unit.
RECURSIVE SqrtFloor(_, _, _)
SqrtFloor(n, lo, hi) ==
    IF hi - lo <= 1 THEN lo
    ELSE LET mid == (lo + hi) \div 2
         IN  IF mid * mid <= n THEN SqrtFloor(n, mid, hi) ELSE SqrtFloor(n, lo, mid)
Sqrt(n) ==
    LET r == SqrtFloor(n, 0, 46341)
    IN  IF n - r * r > r THEN r + 1 ELSE r

distanceFromOrigin(x, y) == Fl(Sqrt(x * x + y * y))

svgToMath(svgX, svgY) ==
    [x |-> MulRatio(Fl(svgX - Px(SVG_CENTER_X)), 1, SVG_RADIUS),
     y |-> MulRatio(Fl(Px(SVG_CENTER_Y) - svgY), 1, SVG_RADIUS)]

normalizeToUnitCircle(x, y) ==
    LET distance == distanceFromOrigin(x, y)
    IN  IF distance < ANGLE_TOLERANCE
        THEN [x |-> Scale, y |-> 0]
        ELSE [x |-> MulRatio(x, Scale, distance), y |-> MulRatio(y, Scale, distance)]

\* Math.atan of a ratio t in [0, 1]: (PI/4) t + 0.273 t (1 - t), which is
\* exact at 0 and at 1 and within 0.004 rad between.
AtanUnit(t) ==
    MulRatio(t, PI, 4 * Scale) + (((t * (Scale - t)) \div Scale) * 273) \div 1000

\* Math.atan2(y, x), in (-PI, PI].
atan2(y, x) ==
    LET ax == Abs(x)
        ay == Abs(y)
        inner == IF ax = 0 /\ ay = 0 THEN 0
                 ELSE IF ay <= ax
                      THEN AtanUnit(MulRatio(ay, Scale, ax))
                      ELSE (PI \div 2) - AtanUnit(MulRatio(ax, Scale, ay))
        upper == IF x < 0 THEN PI - inner ELSE inner
    IN  IF y < 0 THEN -upper ELSE upper

normalizeRadians(radians) ==
    IF radians < 0 THEN Fl(radians + TWO_PI) ELSE radians

angleFromMathCoordinates(x, y, normalizeToCircle) ==
    LET final == IF normalizeToCircle THEN normalizeToUnitCircle(x, y)
                 ELSE [x |-> x, y |-> y]
    IN  Angle(normalizeRadians(atan2(final.y, final.x)), "radians")

angleFromSvgCoordinates(svgX, svgY, normalizeToCircle) ==
    LET m == svgToMath(svgX, svgY)
    IN  angleFromMathCoordinates(m.x, m.y, normalizeToCircle)

\* The SVG element as the drag tests lay it out: bounding rectangle and viewBox
\* both 400 by 400 at the origin.
svgElement ==
    [left |-> 0, top |-> 0, width |-> 400, height |-> 400,
     viewBoxX |-> 0, viewBoxY |-> 0, viewBoxWidth |-> 400, viewBoxHeight |-> 400]

eventToSvgCoordinates(ev) ==
    [x |-> Fl(Px(svgElement.viewBoxX)
              + Fl(MulRatio(Fl(ev.clientX - Px(svgElement.left)), 1, svgElement.width)
                   * svgElement.viewBoxWidth)),
     y |-> Fl(Px(svgElement.viewBoxY)
              + Fl(MulRatio(Fl(ev.clientY - Px(svgElement.top)), 1, svgElement.height)
                   * svgElement.viewBoxHeight))]

-----------------------------------------------------------------------------
(* interactions/ClickHandler *)

\* The null returned in place of an Angle.
NoAngle == Angle(0, "none")

handleCircleClick(ev, snapToCircle, snapTolerance) ==
    LET svg == eventToSvgCoordinates(ev)
        mathCoords == svgToMath(svg.x, svg.y)
        distance == distanceFromOrigin(mathCoords.x, mathCoords.y)
        distanceInSvgPixels == Fl(distance * SVG_RADIUS)
        isOutsideCircle == distanceInSvgPixels > Fl(Px(SVG_RADIUS) + snapTolerance)
    IN  IF isOutsideCircle /\ ~snapToCircle
        THEN NoAngle
        ELSE angleFromSvgCoordinates(svg.x, svg.y, snapToCircle /\ distance > Scale)

-----------------------------------------------------------------------------
(* interactions/DragHandler.ts *)

Null == 0

\* Bounds of the drag model: pointer events acted on, clock ticks, animation
\* frame requests, and the clock's resolution in ticks per minimal frame time.
MaxEvents     == 4
MaxTime       == 4
MaxFrameId    == 4
TicksPerFrame == 2

\* const minFrameTime = 1000 / targetFPS, in clock ticks.
minFrameTime == TicksPerFrame
lockToCircle == TRUE

Buttons      == {0, 2}
PointerTypes == {"mouse", "touch"}
PointerIds   == {1}
Positions    == { [clientX |-> Px(350), clientY |-> Px(200)],
                  [clientX |-> Px(200), clientY |-> Px(50)] }

\* A pointer event: seq numbers the events the listeners acted on, gesture
\* counts the pointer-downs among them.
NoEvent == [seq |-> 0, gesture |-> 0, type |-> "none", clientX |-> 0, clientY |-> 0]
PointerEvent(type, pos) ==
    [seq |-> event.seq + 1,
     gesture |-> IF type = "pointerdown" THEN event.gesture + 1 ELSE event.gesture,
     type |-> type, clientX |-> pos.clientX, clientY |-> pos.clientY]

\* The angle updateAngle computes for a pointer position.
positionAngle ==
    [pos \in Positions |->
        LET svg == eventToSvgCoordinates(pos)
        IN  angleFromSvgCoordinates(svg.x, svg.y, lockToCircle)]
eventAngle(ev) == positionAngle[[clientX |-> ev.clientX, clientY |-> ev.clientY]]

\* One call of onAngleChange, as a test spy records it.
Call(ev) ==
    [seq |-> ev.seq, gesture |-> ev.gesture, type |-> ev.type, time |-> now,
     angle |-> eventAngle(ev)]

requestAnimationFrame(pending, ev) ==
    pending \cup { [id |-> nextFrameId, event |-> ev] }
cancelAnimationFrame(pending, id) ==
    { f \in pending : f.id # id }

\* updateAngle whose throttle branch does not look at animationFrameId: it
\* requests a frame whenever the event comes too soon.
updateAngleIgnoringPending(ev, afId, pending, lastTime) ==
    IF now - lastTime < minFrameTime
    THEN /\ nextFrameId <= MaxFrameId
         /\ animationFrameId' = nextFrameId
         /\ frames' = requestAnimationFrame(pending, ev)
         /\ nextFrameId' = nextFrameId + 1
         /\ lastUpdateTime' = lastTime
         /\ calls' = calls
    ELSE /\ calls' = Append(calls, Call(ev))
         /\ lastUpdateTime' = now
         /\ animationFrameId' = afId
         /\ frames' = pending
         /\ nextFrameId' = nextFrameId

\* updateAngle(event), entered with animationFrameId = afId, the browser's
\* callbacks = pending and state.lastUpdateTime = lastTime.
updateAngle(ev, afId, pending, lastTime) ==
    IF now - lastTime < minFrameTime /\ afId = Null
    THEN /\ nextFrameId <= MaxFrameId
         /\ animationFrameId' = nextFrameId
         /\ frames' = requestAnimationFrame(pending, ev)
         /\ nextFrameId' = nextFrameId + 1
         /\ lastUpdateTime' = lastTime
         /\ calls' = calls
    ELSE /\ calls' = Append(calls, Call(ev))
         /\ lastUpdateTime' = now
         /\ animationFrameId' = afId
         /\ frames' = pending
         /\ nextFrameId' = nextFrameId

\* The pointer-down listener that starts a drag whatever the button.
pointerDownAnyButton(pos, button, pointerType, pointerId) ==
    /\ isDragging' = TRUE
    /\ captured' = captured \cup {pointerId}
    /\ event' = PointerEvent("pointerdown", pos)
    /\ ignoredDown' = FALSE
    /\ updateAngle(event', animationFrameId, frames, now)
    /\ UNCHANGED << now, ups, attached >>

\* The pointer-down listener run on one event.
pointerDown(pos, button, pointerType, pointerId) ==
    IF button # 0 /\ pointerType # "touch"
    THEN /\ ignoredDown' = TRUE
         /\ UNCHANGED << isDragging, animationFrameId, lastUpdateTime, now,
                         frames, nextFrameId, calls, event, ups, attached,
                         captured >>
    ELSE /\ isDragging' = TRUE
         /\ captured' = captured \cup {pointerId}
         /\ event' = PointerEvent("pointerdown", pos)
         /\ ignoredDown' = FALSE
         /\ updateAngle(event', animationFrameId, frames, now)
         /\ UNCHANGED << now, ups, attached >>

handlePointerDown ==
    /\ attached
    /\ event.seq < MaxEvents
    /\ \E pos \in Positions, button \in Buttons, pointerType \in PointerTypes,
          pointerId \in PointerIds :
         pointerDown(pos, button, pointerType, pointerId)

handlePointerMove ==
    /\ attached
    /\ event.seq < MaxEvents
    /\ \E pos \in Positions :
         IF ~isDragging
         THEN UNCHANGED dragVars
         ELSE /\ event' = PointerEvent("pointermove", pos)
              /\ updateAngle(event', animationFrameId, frames, lastUpdateTime)
              /\ UNCHANGED << isDragging, now, ups, attached, captured,
                              ignoredDown >>

handlePointerUp ==
    /\ attached
    /\ event.seq < MaxEvents
    /\ \E pos \in Positions, pointerId \in PointerIds :
         IF ~isDragging
         THEN UNCHANGED dragVars
         ELSE /\ isDragging' = FALSE
              /\ captured' = captured \ {pointerId}
              /\ event' = PointerEvent("pointerup", pos)
              /\ ups' = ups \cup {event'.seq}
              /\ updateAngle(event', Null,
                             cancelAnimationFrame(frames, animationFrameId),
                             lastUpdateTime)
              /\ UNCHANGED << now, attached, ignoredDown >>

handlePointerCancel ==
    /\ attached
    /\ event.seq < MaxEvents
    /\ \E pos \in Positions, pointerId \in PointerIds :
         IF ~isDragging
         THEN UNCHANGED dragVars
         ELSE /\ isDragging' = FALSE
              /\ captured' = captured \ {pointerId}
              /\ event' = PointerEvent("pointercancel", pos)
              /\ frames' = cancelAnimationFrame(frames, animationFrameId)
              /\ animationFrameId' = Null
              /\ UNCHANGED << lastUpdateTime, now, nextFrameId, calls, ups,
                              attached, ignoredDown >>

\* The browser runs an outstanding animation-frame callback:
\* state.animationFrameId = null; updateAngle(event).
AnimationFrame ==
    \E f \in frames :
        /\ updateAngle(f.event, Null, frames \ {f}, lastUpdateTime)
        /\ UNCHANGED << isDragging, now, event, ups, attached, captured,
                        ignoredDown >>

\* A cleanup that removes the listeners and forgets the pending frame
\* without cancelling it.
cleanupLeavingFrame ==
    /\ attached
    /\ attached' = FALSE
    /\ animationFrameId' = Null
    /\ isDragging' = FALSE
    /\ UNCHANGED << frames, lastUpdateTime, now, nextFrameId, calls, event, ups,
                    captured, ignoredDown >>

\* The cleanup function createDragHandler returns.
cleanup ==
    /\ attached
    /\ attached' = FALSE
    /\ frames' = cancelAnimationFrame(frames, animationFrameId)
    /\ animationFrameId' = Null
    /\ isDragging' = FALSE
    /\ UNCHANGED << lastUpdateTime, now, nextFrameId, calls, event, ups,
                    captured, ignoredDown >>

\* performance.now() advances.
Tick ==
    /\ now < MaxTime
    /\ now' = now + 1
    /\ UNCHANGED << isDragging, animationFrameId, lastUpdateTime, frames,
                    nextFrameId, calls, event, ups, attached, captured,
                    ignoredDown >>

DragInit ==
    /\ isDragging = FALSE
    /\ animationFrameId = Null
    /\ lastUpdateTime = 0
    /\ now = 0
    /\ frames = {}
    /\ nextFrameId = 1
    /\ calls = << >>
    /\ event = NoEvent
    /\ ups = {}
    /\ attached = TRUE
    /\ captured = {}
    /\ ignoredDown = FALSE

DragNext ==
    \/ handlePointerDown /\ UNCHANGED << storeVars, controlVars, calcVars, viewVars >>
    \/ handlePointerMove /\ UNCHANGED << storeVars, controlVars, calcVars, viewVars >>
    \/ handlePointerUp /\ UNCHANGED << storeVars, controlVars, calcVars, viewVars >>
    \/ handlePointerCancel /\ UNCHANGED << storeVars, controlVars, calcVars, viewVars >>
    \/ AnimationFrame /\ UNCHANGED << storeVars, controlVars, calcVars, viewVars >>
    \/ cleanup /\ UNCHANGED << storeVars, controlVars, calcVars, viewVars >>
    \/ Tick /\ UNCHANGED << storeVars, controlVars, calcVars, viewVars >>

-----------------------------------------------------------------------------
(* Texts.  A string is the sequence of its characters. *)

Digits == << "0", "1", "2", "3", "4", "5", "6", "7", "8", "9" >>
IsDigit(c) == \E i \in 1 .. 10 : Digits[i] = c
DigitValue(c) == (CHOOSE i \in 1 .. 10 : Digits[i] = c) - 1

\* String.prototype.toLowerCase and the /i flag, on the letters the
\* grammars name.
UpperCase == << "P", "I", "D", "E", "G", "R", "A", "N", "S", "Π" >>
LowerCase == << "p", "i", "d", "e", "g", "r", "a", "n", "s", "π" >>
toLowerCase(s) ==
    [ i \in 1 .. Len(s) |->
        IF \E k \in 1 .. Len(UpperCase) : UpperCase[k] = s[i]
        THEN LowerCase[CHOOSE k \in 1 .. Len(UpperCase) : UpperCase[k] = s[i]]
        ELSE s[i] ]

\* \s
IsSpace(c) == c = " "
AllSpaces(s) == \A i \in 1 .. Len(s) : IsSpace(s[i])

RECURSIVE trimStart(_)
trimStart(s) == IF s # << >> /\ IsSpace(Head(s)) THEN trimStart(Tail(s)) ELSE s
RECURSIVE trimEnd(_)
trimEnd(s) ==
    IF s # << >> /\ IsSpace(s[Len(s)]) THEN trimEnd(SubSeq(s, 1, Len(s) - 1)) ELSE s
trim(s) == trimEnd(trimStart(s))

\* \d+
AllDigits(s) == s # << >> /\ \A i \in 1 .. Len(s) : IsDigit(s[i])
\* \d+(?:\.\d+)?
MatchesUnsigned(s) ==
    \/ AllDigits(s)
    \/ \E k \in 2 .. Len(s) - 1 :
          /\ s[k] = "."
          /\ AllDigits(SubSeq(s, 1, k - 1))
          /\ AllDigits(SubSeq(s, k + 1, Len(s)))
\* -?\d+(?:\.\d+)?
MatchesNumber(s) ==
    \/ MatchesUnsigned(s)
    \/ s # << >> /\ Head(s) = "-" /\ MatchesUnsigned(Tail(s))

\* Magnitudes of Infinity units and above are not finite numbers: the
\* exponent range is reduced with the significand.
Infinity == 2^28
isFinite(v) == Abs(v) < Infinity

RECURSIVE trimLeadingZeros(_)
trimLeadingZeros(s) ==
    IF Len(s) > 1 /\ Head(s) = "0" THEN trimLeadingZeros(Tail(s)) ELSE s

RECURSIVE NatOf(_)
NatOf(s) == IF s = << >> THEN 0 ELSE 10 * NatOf(SubSeq(s, 1, Len(s) - 1)) + DigitValue(s[Len(s)])

\* The first four decimals of a fraction's digits, as a count of units,
\* rounded on the fifth.
FractionUnits(f) ==
    LET d(i) == IF i <= Len(f) THEN DigitValue(f[i]) ELSE 0
    IN  1000 * d(1) + 100 * d(2) + 10 * d(3) + d(4) + (IF d(5) >= 5 THEN 1 ELSE 0)

\* parseFloat of a text that matches -?\d+(?:\.\d+)?
parseFloat(s) ==
    LET negative == Head(s) = "-"
        u        == IF negative THEN Tail(s) ELSE s
        dot      == IF \E k \in 1 .. Len(u) : u[k] = "."
                    THEN CHOOSE k \in 1 .. Len(u) : u[k] = "."
                    ELSE Len(u) + 1
        whole    == trimLeadingZeros(SubSeq(u, 1, dot - 1))
        m        == IF Len(whole) > 5
                    THEN Infinity
                    ELSE NatOf(whole) * Scale + FractionUnits(SubSeq(u, dot + 1, Len(u)))
        v        == IF m >= Infinity THEN Infinity ELSE Fl(m)
    IN  IF negative THEN -v ELSE v

\* a / b for a > 0 and b > 0.
Divide(a, b) ==
    IF b >= Infinity THEN 0
    ELSE LET q == RoundToMultiple(a * Scale, b) \div b
         IN  IF q >= Infinity THEN Infinity ELSE Fl(q)

RECURSIVE DigitsOf(_)
DigitsOf(n) ==
    IF n < 10 THEN << Digits[n + 1] >>
    ELSE Append(DigitsOf(n \div 10), Digits[(n % 10) + 1])

\* Number.prototype.toFixed(d) for d <= 4.
toFixed(n, d) ==
    LET unit  == 10^(4 - d)
        q     == (Abs(n) + unit \div 2) \div unit
        whole == q \div 10^d
        frac  == q % 10^d
    IN  (IF n < 0 THEN << "-" >> ELSE << >>)
        \o DigitsOf(whole) \o << "." >>
        \o [ i \in 1 .. d |-> Digits[((frac \div 10^(d - i)) % 10) + 1] ]

-----------------------------------------------------------------------------
(* utils/angleParser *)

NoError == [kind |-> "null", input |-> << >>]
Rejected(kind, input) ==
    [angle |-> NoAngle, error |-> [kind |-> kind, input |-> input], throws |-> FALSE]
\* new Angle(value, unit) as the result of a successful parse; the
\* constructor throws on a value that is not finite.
Parsed(value, unit) ==
    IF isFinite(value)
    THEN [angle |-> Angle(value, unit), error |-> NoError, throws |-> FALSE]
    ELSE [angle |-> NoAngle, error |-> NoError, throws |-> TRUE]

\* /^(pi|π|PI)\s*\/\s*(\d+(?:\.\d+)?)$/i : the set of texts group 2 can be.
piFractionMatch(s) ==
    { SubSeq(s, k, Len(s)) :
        k \in { k \in 3 .. Len(s) :
                  \E p \in 1 .. 2, q \in 2 .. (k - 1) :
                      /\ p < q
                      /\ toLowerCase(SubSeq(s, 1, p)) \in { << "p", "i" >>, << "π" >> }
                      /\ AllSpaces(SubSeq(s, p + 1, q - 1))
                      /\ s[q] = "/"
                      /\ AllSpaces(SubSeq(s, q + 1, k - 1))
                      /\ MatchesUnsigned(SubSeq(s, k, Len(s))) } }

UnitWords ==
    { << "d", "e", "g" >>, << "d", "e", "g", "r", "e", "e" >>,
      << "d", "e", "g", "r", "e", "e", "s" >>, << "°" >>,
      << "r", "a", "d" >>, << "r", "a", "d", "i", "a", "n" >>,
      << "r", "a", "d", "i", "a", "n", "s" >> }

\* /^(-?\d+(?:\.\d+)?)\s*(deg|degrees?|°|rad|radians?)$/i : the set of
\* pairs (group 1, group 2).
unitMatch(s) ==
    { << SubSeq(s, 1, n), SubSeq(s, k, Len(s)) >> :
        << n, k >> \in { nk \in (1 .. Len(s)) \X (2 .. Len(s)) :
                          /\ nk[1] < nk[2]
                          /\ MatchesNumber(SubSeq(s, 1, nk[1]))
                          /\ AllSpaces(SubSeq(s, nk[1] + 1, nk[2] - 1))
                          /\ toLowerCase(SubSeq(s, nk[2], Len(s))) \in UnitWords } }

startsWith(s, prefix) ==
    Len(s) >= Len(prefix) /\ SubSeq(s, 1, Len(prefix)) = prefix

\* parseAngleInput without the test for a zero denominator: PI / 0 is Infinity.
parseAngleInputWithoutZeroCheck(input, currentUnit) ==
    LET trimmed == trim(input)
        piFraction == piFractionMatch(trimmed)
        withUnit == unitMatch(trimmed)
    IN  IF trimmed = << >> THEN Rejected("empty", << >>)
        ELSE IF piFraction # {}
        THEN LET denominator == parseFloat(CHOOSE d \in piFraction : TRUE)
             IN  IF denominator = 0
                 THEN Parsed(Infinity, "radians")
                 ELSE Parsed(Divide(PI, denominator), "radians")
        ELSE IF withUnit # {}
        THEN LET match   == CHOOSE m \in withUnit : TRUE
                 value   == parseFloat(match[1])
                 unitStr == toLowerCase(match[2])
             IN  IF ~isFinite(value) THEN Rejected("invalidNumber", match[1])
                 ELSE IF startsWith(unitStr, << "d", "e", "g" >>) \/ unitStr = << "°" >>
                 THEN Parsed(value, "degrees")
                 ELSE IF startsWith(unitStr, << "r", "a", "d" >>)
                 THEN Parsed(value, "radians")
                 ELSE Rejected("unknownUnit", match[2])
        ELSE IF MatchesNumber(trimmed)
        THEN LET value == parseFloat(trimmed)
             IN  IF ~isFinite(value) THEN Rejected("invalidNumber", trimmed)
                 ELSE Parsed(value, currentUnit)
        ELSE Rejected("invalidFormat", input)

\* parseAngleInput that reads a suffixed number in the current unit.
parseAngleInputInCurrentUnit(input, currentUnit) ==
    LET trimmed == trim(input)
        piFraction == piFractionMatch(trimmed)
        withUnit == unitMatch(trimmed)
    IN  IF trimmed = << >> THEN Rejected("empty", << >>)
        ELSE IF piFraction # {}
        THEN LET denominator == parseFloat(CHOOSE d \in piFraction : TRUE)
             IN  IF denominator = 0
                 THEN Rejected("divideByZero", << >>)
                 ELSE Parsed(Divide(PI, denominator), "radians")
        ELSE IF withUnit # {}
        THEN LET match   == CHOOSE m \in withUnit : TRUE
                 value   == parseFloat(match[1])
                 unitStr == toLowerCase(match[2])
             IN  IF ~isFinite(value) THEN Rejected("invalidNumber", match[1])
                 ELSE IF startsWith(unitStr, << "d", "e", "g" >>) \/ unitStr = << "°" >>
                 THEN Parsed(value, currentUnit)
                 ELSE IF startsWith(unitStr, << "r", "a", "d" >>)
                 THEN Parsed(value, currentUnit)
                 ELSE Rejected("unknownUnit", match[2])
        ELSE IF MatchesNumber(trimmed)
        THEN LET value == parseFloat(trimmed)
             IN  IF ~isFinite(value) THEN Rejected("invalidNumber", trimmed)
                 ELSE Parsed(value, currentUnit)
        ELSE Rejected("invalidFormat", input)

parseAngleInput(input, currentUnit) ==
    LET trimmed == trim(input)
        piFraction == piFractionMatch(trimmed)
        withUnit == unitMatch(trimmed)
    IN  IF trimmed = << >> THEN Rejected("empty", << >>)
        ELSE IF piFraction # {}
        THEN LET denominator == parseFloat(CHOOSE d \in piFraction : TRUE)
             IN  IF denominator = 0
                 THEN Rejected("divideByZero", << >>)
                 ELSE Parsed(Divide(PI, denominator), "radians")
        ELSE IF withUnit # {}
        THEN LET match   == CHOOSE m \in withUnit : TRUE
                 value   == parseFloat(match[1])
                 unitStr == toLowerCase(match[2])
             IN  IF ~isFinite(value) THEN Rejected("invalidNumber", match[1])
                 ELSE IF startsWith(unitStr, << "d", "e", "g" >>) \/ unitStr = << "°" >>
                 THEN Parsed(value, "degrees")
                 ELSE IF startsWith(unitStr, << "r", "a", "d" >>)
                 THEN Parsed(value, "radians")
                 ELSE Rejected("unknownUnit", match[2])
        ELSE IF MatchesNumber(trimmed)
        THEN LET value == parseFloat(trimmed)
             IN  IF ~isFinite(value) THEN Rejected("invalidNumber", trimmed)
                 ELSE Parsed(value, currentUnit)
        ELSE Rejected("invalidFormat", input)

formatAngleForInput(angle, unit) ==
    IF unit = "degrees"
    THEN toFixed(toDegrees(angle), 2)
    ELSE LET rad == toRadians(angle)
             near(x) == Abs(rad - x) < Scale \div 10000
         IN  IF Abs(rad) < Scale \div 10000 THEN << "0" >>
             ELSE IF near(PI) THEN << "π" >>
             ELSE IF near(TWO_PI) THEN << "2", "π" >>
             ELSE IF near(MulRatio(PI, 1, 2)) THEN << "π", "/", "2" >>
             ELSE IF near(MulRatio(Fl(3 * PI), 1, 2)) THEN << "3", "π", "/", "2" >>
             ELSE IF near(MulRatio(PI, 1, 3)) THEN << "π", "/", "3" >>
             ELSE IF near(MulRatio(PI, 1, 4)) THEN << "π", "/", "4" >>
             ELSE IF near(MulRatio(PI, 1, 6)) THEN << "π", "/", "6" >>
             ELSE toFixed(rad, 4)

NoMessage == [type |-> "none", original |-> << >>, normalized |-> << >>, rotations |-> 0]

\* Math.floor(a / full) for a full turn: the quotient is rounded to MantBits
\* bits before the floor is taken, so a quotient within half a unit in the
\* last place of a whole number becomes that whole number. A quotient of
\* small magnitude is never rounded to zero.
FloorOfTurns(a, full) ==
    LET whole == Abs(a) \div full
        rest  == Abs(a) % full
        half  == full \div 2^(MantBits + 1 - BitLen(whole))
        up    == rest > 0 /\ full - rest <= half
        down  == rest = 0 \/ (whole > 0 /\ rest <= half)
    IN  IF a >= 0
        THEN IF up THEN whole + 1 ELSE whole
        ELSE IF down THEN -whole ELSE -(whole + 1)

detectNormalization(originalValue, normalizedAngle, originalUnit) ==
    LET normalizedValue == IF originalUnit = "degrees"
                           THEN toDegrees(normalizedAngle)
                           ELSE toRadians(normalizedAngle)
        tolerance == IF originalUnit = "degrees" THEN Scale \div 100 ELSE Scale \div 10000
        wasNormalized == Abs(originalValue - normalizedValue) > tolerance
        rotations == IF originalUnit = "degrees"
                     THEN FloorOfTurns(originalValue, FullTurnDeg)
                     ELSE FloorOfTurns(originalValue, TWO_PI)
        places == IF originalUnit = "degrees" THEN 2 ELSE 4
    IN  IF ~wasNormalized
        THEN [wasNormalized |-> FALSE, rotations |-> 0, message |-> NoMessage]
        ELSE [wasNormalized |-> TRUE, rotations |-> rotations,
              message |-> [type |-> "info",
                           original |-> toFixed(originalValue, places),
                           normalized |-> toFixed(normalizedValue, places),
                           rotations |-> Abs(rotations)]]
-----------------------------------------------------------------------------
(* interactions/SliderHandler *)

getDefaultSliderOptions(unit) ==
    IF unit = "degrees"
    THEN [min |-> 0, max |-> FullTurnDeg, step |-> Scale]
    ELSE [min |-> 0, max |-> TWO_PI, step |-> Scale \div 100]

MAX_TOLERANCE_DEG == Scale \div 2
MAX_TOLERANCE_RAD == Scale \div 100

\* sliderValueToAngle that compares with > in place of >=.
sliderValueToAngleStrict(value, unit) ==
    IF unit = "degrees"
    THEN IF value > Fl(FullTurnDeg - MAX_TOLERANCE_DEG)
         THEN Angle(0, "degrees") ELSE Angle(value, "degrees")
    ELSE IF value > Fl(TWO_PI - MAX_TOLERANCE_RAD)
         THEN Angle(0, "radians") ELSE Angle(value, "radians")

sliderValueToAngle(value, unit) ==
    IF unit = "degrees"
    THEN IF value >= Fl(FullTurnDeg - MAX_TOLERANCE_DEG)
         THEN Angle(0, "degrees") ELSE Angle(value, "degrees")
    ELSE IF value >= Fl(TWO_PI - MAX_TOLERANCE_RAD)
         THEN Angle(0, "radians") ELSE Angle(value, "radians")

Min(a, b) == IF a < b THEN a ELSE b

\* angleToSliderValue that shows the maximum at zero when the slider was not
\* at its maximum.
angleToSliderValueInverted(angle, unit, atMax) ==
    IF unit = "degrees"
    THEN IF Abs(toDegrees(angle)) < MAX_TOLERANCE_DEG /\ ~atMax
         THEN FullTurnDeg ELSE Min(toDegrees(angle), FullTurnDeg)
    ELSE IF Abs(toRadians(angle)) < MAX_TOLERANCE_RAD /\ ~atMax
         THEN TWO_PI ELSE Min(toRadians(angle), TWO_PI)

\* angleToSliderValue that never looks at wasAtMax.
angleToSliderValueIgnoringWasAtMax(angle, unit, atMax) ==
    IF unit = "degrees"
    THEN Min(toDegrees(angle), FullTurnDeg)
    ELSE Min(toRadians(angle), TWO_PI)

angleToSliderValue(angle, unit, atMax) ==
    IF unit = "degrees"
    THEN IF Abs(toDegrees(angle)) < MAX_TOLERANCE_DEG /\ atMax
         THEN FullTurnDeg ELSE Min(toDegrees(angle), FullTurnDeg)
    ELSE IF Abs(toRadians(angle)) < MAX_TOLERANCE_RAD /\ atMax
         THEN TWO_PI ELSE Min(toRadians(angle), TWO_PI)

-----------------------------------------------------------------------------
(* components/AngleControls *)

PRESET_ANGLES == { 0, 30, 45, 60, 90, 180, 270, 360 }

\* Bounds of the controls model: timers pending at one time, and texts
\* committed and accepted in one run.
MaxTimers == 1
MaxAccepted == 1

\* const max = angleUnit === 'degrees' ? 360 : 2 * Math.PI;
\* Math.abs(value - max) < (angleUnit === 'degrees' ? 0.5 : 0.01)
isAtMax(value, unit) ==
    IF unit = "degrees"
    THEN Abs(Fl(value - FullTurnDeg)) < MAX_TOLERANCE_DEG
    ELSE Abs(Fl(value - TWO_PI)) < MAX_TOLERANCE_RAD

\* The wasAtMax sync effect run with the given state: the value wasAtMax has
\* after it.
\*   const isAtMax = Math.abs(sliderValue - max) < ...;
\*   if (isAtMax !== wasAtMax) setWasAtMax(isAtMax);
wasAtMaxEffect(angle, unit, atMax) ==
    LET value == angleToSliderValue(angle, unit, atMax)
    IN  IF isAtMax(value, unit) # atMax THEN isAtMax(value, unit) ELSE atMax

\* The sliderValue memo of the current state.
sliderValue == angleToSliderValue(currentAngle, angleUnit, wasAtMax)

\* What the effects' dependency arrays held at the last render.
NotRendered == [angleUnit |-> "none", sliderValue |-> 0, wasAtMax |-> FALSE]
RenderPending ==
    \/ angleChanged
    \/ rendered # [angleUnit |-> angleUnit, sliderValue |-> sliderValue,
                   wasAtMax |-> wasAtMax]

\* The values a range input with the slider's options can report: min plus
\* a whole number of steps, not above max.
TopStep(unit) ==
    LET o == getDefaultSliderOptions(unit) IN (o.max - o.min) \div o.step
SliderValues(unit) ==
    LET o == getDefaultSliderOptions(unit)
    IN  { Fl(o.min + k * o.step) : k \in { 0, TopStep(unit) } }

\* The texts typed into the angle field.
InputTexts ==
    { << "-", "9", "0" >>, << "2", "π" >>,
      << "π", "/", "0", ".", "0", "0", "0", "1" >> }

\* The angles the unit-circle view stores on a drag or a click.
ExternalAngles == { Angle(0, "radians"), Angle(MulRatio(PI, 1, 2), "radians") }

Keys == { "Enter", "a" }

\* The presets pressed.
PresetsPressed == { 0, 360 }

\* setTimeout(callback, delay); message is the one the callback closes over,
\* shown the message on display when the timer was started.
setTimeout(delay, message) ==
    Append(timers, [delay |-> delay, message |-> message, shown |-> userMessage'])

\* One render of the component followed by the effects whose dependencies
\* changed: the input sync effect, then the wasAtMax sync effect.
Render ==
    /\ RenderPending
    /\ LET mount     == rendered = NotRendered
           syncInput == \/ mount \/ angleChanged
                        \/ rendered.angleUnit # angleUnit
                        \/ rendered.sliderValue # sliderValue
           syncMax   == \/ mount
                        \/ rendered.sliderValue # sliderValue
                        \/ rendered.angleUnit # angleUnit
                        \/ rendered.wasAtMax # wasAtMax
           atMax     == isAtMax(sliderValue, angleUnit)
       IN  /\ IF syncInput /\ ~isInputFocused
              THEN /\ inputValue' =
                        IF atMax
                        THEN IF angleUnit = "degrees"
                             THEN << "3", "6", "0", ".", "0", "0" >>
                             ELSE toFixed(TWO_PI, 4)
                        ELSE formatAngleForInput(currentAngle, angleUnit)
                   /\ inputError' = NoError
              ELSE UNCHANGED << inputValue, inputError >>
           /\ wasAtMax' = IF syncMax
                        THEN wasAtMaxEffect(currentAngle, angleUnit, wasAtMax)
                        ELSE wasAtMax
           /\ rendered' = [angleUnit |-> angleUnit, sliderValue |-> sliderValue,
                           wasAtMax |-> wasAtMax]
           /\ angleChanged' = FALSE
    /\ UNCHANGED << storeVars, userMessage, isInputFocused, focused, timers,
                    accepted >>

handleSliderChange(value) ==
    /\ ~RenderPending
    /\ wasAtMax' = isAtMax(value, angleUnit)
    /\ setAngle(sliderValueToAngle(value, angleUnit))
    /\ angleChanged' = TRUE
    /\ UNCHANGED << inputValue, inputError, userMessage, isInputFocused, focused,
                    timers, rendered, accepted >>

handleInputChange(value) ==
    /\ ~RenderPending
    /\ focused
    /\ inputValue' = value
    /\ inputError' = NoError
    /\ userMessage' = NoMessage
    /\ UNCHANGED << storeVars, wasAtMax, isInputFocused, focused, timers,
                    rendered, angleChanged, accepted >>

handleInputFocus ==
    /\ ~RenderPending
    /\ ~focused
    /\ focused' = TRUE
    /\ isInputFocused' = TRUE
    /\ UNCHANGED << storeVars, wasAtMax, inputValue, inputError, userMessage,
                    timers, rendered, angleChanged, accepted >>

\* errorHandler.handleInputError -> showUserMessage -> the callback the
\* component registered: setUserMessage and a 5 second clear timer.
handleInputError(invalidInput) ==
    /\ Len(timers) < MaxTimers
    /\ userMessage' = [type |-> "error", original |-> invalidInput,
                       normalized |-> << >>, rotations |-> 0]
    /\ timers' = setTimeout(5000, NoMessage)

\* handleInputBlur that leaves the typed text in the field on an error.
handleInputBlurKeepingText ==
    LET result == parseAngleInput(inputValue, angleUnit)
    IN  /\ isInputFocused' = FALSE
        /\ IF result.throws
           THEN UNCHANGED << storeVars, wasAtMax, inputValue, inputError,
                             userMessage, timers, rendered, angleChanged, accepted >>
           ELSE IF result.error # NoError
           THEN /\ inputError' = result.error
                /\ handleInputError(inputValue)
                /\ UNCHANGED << storeVars, wasAtMax, inputValue, rendered, angleChanged,
                                accepted >>
           ELSE /\ accepted < MaxAccepted
                /\ accepted' = accepted + 1
                /\ setAngle(result.angle)
                /\ angleChanged' = TRUE
                /\ inputError' = NoError
                /\ UNCHANGED << wasAtMax, inputValue, userMessage, timers, rendered >>

handleInputBlur ==
    LET result == parseAngleInput(inputValue, angleUnit)
    IN  /\ isInputFocused' = FALSE
        /\ IF result.throws
           THEN UNCHANGED << storeVars, wasAtMax, inputValue, inputError,
                             userMessage, timers, rendered, angleChanged, accepted >>
           ELSE IF result.error # NoError
           THEN /\ inputError' = result.error
                /\ handleInputError(inputValue)
                /\ inputValue' = formatAngleForInput(currentAngle, angleUnit)
                /\ UNCHANGED << storeVars, wasAtMax, rendered, angleChanged, accepted >>
           ELSE /\ accepted < MaxAccepted
                /\ accepted' = accepted + 1
                /\ setAngle(result.angle)
                /\ angleChanged' = TRUE
                /\ inputError' = NoError
                /\ IF MatchesNumber(trim(inputValue))
                   THEN LET originalValue == parseFloat(trim(inputValue))
                            normalizationInfo ==
                                detectNormalization(originalValue,
                                                    normalize(result.angle),
                                                    result.angle.unit)
                        IN  IF normalizationInfo.wasNormalized
                            THEN /\ Len(timers) < MaxTimers
                                 /\ userMessage' = normalizationInfo.message
                                 /\ timers' = setTimeout(3000, normalizationInfo.message)
                            ELSE UNCHANGED << userMessage, timers >>
                   ELSE UNCHANGED << userMessage, timers >>
                /\ UNCHANGED << wasAtMax, inputValue, rendered >>

\* The field loses the focus.
InputBlur ==
    /\ ~RenderPending
    /\ focused
    /\ focused' = FALSE
    /\ handleInputBlur

handleInputKeyPress(key) ==
    /\ ~RenderPending
    /\ focused
    /\ UNCHANGED focused
    /\ IF key = "Enter"
       THEN handleInputBlur
       ELSE UNCHANGED << storeVars, wasAtMax, inputValue, inputError, userMessage,
                         isInputFocused, timers, rendered, angleChanged, accepted >>

handleUnitToggle ==
    /\ ~RenderPending
    /\ setAngleUnit(IF angleUnit = "radians" THEN "degrees" ELSE "radians")
    /\ angleChanged' = TRUE
    /\ UNCHANGED << wasAtMax, inputValue, inputError, userMessage,
                    isInputFocused, focused, timers, rendered, accepted >>

handlePresetClick(degrees) ==
    /\ ~RenderPending
    /\ wasAtMax' = (degrees = 360)
    /\ setAngle(fromDegrees(Fl(degrees * Scale)))
    /\ angleChanged' = TRUE
    /\ UNCHANGED << inputValue, inputError, userMessage, isInputFocused, focused,
                    timers, rendered, accepted >>

\* The unit-circle view stores the angle of a drag or a click.
ExternalSetAngle ==
    /\ ~RenderPending
    /\ \E a \in ExternalAngles : setAngle(a)
    /\ angleChanged' = TRUE
    /\ UNCHANGED << wasAtMax, inputValue, inputError, userMessage,
                    isInputFocused, focused, timers, rendered, accepted >>

\* A timer callback runs.  Timers of equal delay run in the order they were
\* started, and a timer started later with a longer delay runs later.
TimerFires ==
    /\ ~RenderPending
    /\ \E i \in 1 .. Len(timers) :
         /\ \A j \in 1 .. (i - 1) : timers[j].delay > timers[i].delay
         /\ userMessage' =
                IF timers[i].delay = 5000 THEN NoMessage
                ELSE IF userMessage = timers[i].message THEN NoMessage
                ELSE userMessage
         /\ timers' = SubSeq(timers, 1, i - 1) \o SubSeq(timers, i + 1, Len(timers))
    /\ UNCHANGED << storeVars, wasAtMax, inputValue, inputError, isInputFocused,
                    focused, rendered, angleChanged, accepted >>

\* Messages of the error handler's other producers, handleCalculationError
\* and handleRenderingError, and the timers they may leave pending at most.
OtherMessages ==
    { [type |-> "error", original |-> << what >>, normalized |-> << >>,
       rotations |-> 0] : what \in { "calculation", "rendering" } }
MaxMessageTimers == 2

\* errorHandler.showUserMessage(message, type) -> the callback the component
\* registered: setUserMessage({ message, type }) and a 5 second clear timer.
showUserMessage(message) ==
    /\ userMessage' = message
    /\ timers' = setTimeout(5000, NoMessage)

\* Another part of the application reports an error while the controls are
\* mounted.
ErrorElsewhere ==
    /\ ~RenderPending
    /\ Len(timers) < MaxMessageTimers
    /\ \E message \in OtherMessages : showUserMessage(message)
    /\ UNCHANGED << storeVars, wasAtMax, inputValue, inputError, isInputFocused,
                    focused, rendered, angleChanged, accepted >>

ControlsInit ==
    /\ wasAtMax = FALSE
    /\ inputValue = << >>
    /\ inputError = NoError
    /\ userMessage = NoMessage
    /\ isInputFocused = FALSE
    /\ focused = FALSE
    /\ timers = << >>
    /\ rendered = NotRendered
    /\ angleChanged = FALSE
    /\ accepted = 0

ControlsNext ==
    \/ Render /\ UNCHANGED << dragVars, calcVars, viewVars >>
    \/ (\E value \in SliderValues(angleUnit) : handleSliderChange(value))
          /\ UNCHANGED << dragVars, calcVars, viewVars >>
    \/ (\E value \in InputTexts : handleInputChange(value)) /\ UNCHANGED << dragVars, calcVars, viewVars >>
    \/ handleInputFocus /\ UNCHANGED << dragVars, calcVars, viewVars >>
    \/ InputBlur /\ UNCHANGED << dragVars, calcVars, viewVars >>
    \/ (\E key \in Keys : handleInputKeyPress(key)) /\ UNCHANGED << dragVars, calcVars, viewVars >>
    \/ handleUnitToggle /\ UNCHANGED << dragVars, calcVars, viewVars >>
    \/ (\E degrees \in PresetsPressed : handlePresetClick(degrees))
          /\ UNCHANGED << dragVars, calcVars, viewVars >>
    \/ ExternalSetAngle /\ UNCHANGED << dragVars, calcVars, viewVars >>
    \/ TimerFires /\ UNCHANGED << dragVars, calcVars, viewVars >>

-----------------------------------------------------------------------------
(* core/Trigonometry and core/InverseTrig *)

\* ZERO_TOLERANCE = 1e-10: below the grid, so only 0 is closer to 0.
ZERO_TOLERANCE == 1

\* Math.sin on [0, PI/2]: the Taylor series up to the ninth power.
SinUnit(x) ==
    LET x2 == MulRatio(x, x, Scale)
        t3 == MulRatio(x, x2, 6 * Scale)
        t5 == MulRatio(t3, x2, 20 * Scale)
        t7 == MulRatio(t5, x2, 42 * Scale)
        t9 == MulRatio(t7, x2, 72 * Scale)
    IN  Min(x - t3 + t5 - t7 + t9, Scale)

\* Math.sin and Math.cos of a number of radians.
MathSin(x) ==
    LET r == Rem(x, TWO_PI)
        a == IF r < 0 THEN r + TWO_PI ELSE r
    IN  IF a <= PI \div 2 THEN SinUnit(a)
        ELSE IF a <= PI THEN SinUnit(PI - a)
        ELSE IF a <= 3 * (PI \div 2) THEN -SinUnit(a - PI)
        ELSE -SinUnit(TWO_PI - a)
MathCos(x) == MathSin(x + PI \div 2)

\* Math.asin on [0, 1]: the least angle of [lo, hi] whose sine reaches v,
\* and PI/2 exactly at 1.
RECURSIVE AsinSearch(_, _, _)
AsinSearch(v, lo, hi) ==
    IF hi - lo <= 1 THEN hi
    ELSE LET mid == (lo + hi) \div 2
         IN  IF SinUnit(mid) >= v THEN AsinSearch(v, lo, mid)
             ELSE AsinSearch(v, mid, hi)
MathAsin(v) ==
    LET a == IF Abs(v) = 0 THEN 0
             ELSE IF Abs(v) >= Scale THEN PI \div 2
             ELSE AsinSearch(Abs(v), 0, PI \div 2)
    IN  IF v < 0 THEN -a ELSE a
MathAcos(v) == PI \div 2 - MathAsin(v)
MathAtan(v) == atan2(v, Scale)

\* A value that may be undefined: number | null.
Undefined == [null |-> TRUE, value |-> 0]
Number(v) == [null |-> FALSE, value |-> v]

\* 1 / value for value # 0.
Reciprocal(value) ==
    IF value < 0 THEN -Divide(Scale, -value) ELSE Divide(Scale, value)

\* TrigonometricValues of an angle.
sin(angle) == MathSin(toRadians(angle))
cos(angle) == MathCos(toRadians(angle))
sec(angle) ==
    IF Abs(cos(angle)) < ZERO_TOLERANCE THEN Undefined
    ELSE Number(Reciprocal(cos(angle)))
csc(angle) ==
    IF Abs(sin(angle)) < ZERO_TOLERANCE THEN Undefined
    ELSE Number(Reciprocal(sin(angle)))

\* a / b for b # 0.
Ratio(a, b) ==
    IF (a < 0) = (b < 0) THEN Divide(Abs(a), Abs(b)) ELSE -Divide(Abs(a), Abs(b))

tan(angle) ==
    IF Abs(cos(angle)) < ZERO_TOLERANCE THEN Undefined
    ELSE Number(Ratio(sin(angle), cos(angle)))
cot(angle) ==
    IF Abs(sin(angle)) < ZERO_TOLERANCE THEN Undefined
    ELSE Number(Ratio(cos(angle), sin(angle)))

UndefinedText == << "u", "n", "d", "e", "f", "i", "n", "e", "d" >>

\* formatTrigValue that shows a value below the display threshold as
\* undefined.
formatTrigValueHidingZero(value, precision) ==
    IF value.null \/ Abs(value.value) < ZERO_TOLERANCE THEN UndefinedText
    ELSE toFixed(value.value, precision)

formatTrigValue(value, precision) ==
    IF value.null THEN UndefinedText
    ELSE IF Abs(value.value) < ZERO_TOLERANCE THEN << "0" >>
    ELSE toFixed(value.value, precision)

\* What a method of InverseTrigonometricValues does: it throws, or it
\* returns the list of its solutions.
DomainError == [throws |-> TRUE, solutions |-> << >>]
Solutions(list) ==
    [throws |-> FALSE, solutions |-> [i \in 1 .. Len(list) |-> normalize(list[i])]]

\* The solutions in [0, 2 PI) that follow from a principal value of asin.
FromAsin(principal) ==
    IF principal >= 0
    THEN IF principal > 0 /\ principal < MulRatio(PI, 1, 2)
         THEN << fromRadians(principal), fromRadians(Fl(PI - principal)) >>
         ELSE << fromRadians(principal) >>
    ELSE << fromRadians(Fl(TWO_PI + principal)), fromRadians(Fl(PI - principal)) >>

\* The solutions in [0, 2 PI) that follow from a principal value of acos.
FromAcos(principal) ==
    IF principal > 0 /\ principal < PI
    THEN << fromRadians(principal), fromRadians(Fl(TWO_PI - principal)) >>
    ELSE << fromRadians(principal) >>

arcsin(value) ==
    IF value < -Scale \/ value > Scale THEN DomainError
    ELSE Solutions(FromAsin(MathAsin(value)))

arccos(value) ==
    IF value < -Scale \/ value > Scale THEN DomainError
    ELSE Solutions(FromAcos(MathAcos(value)))

arctan(value) == Solutions(<< fromRadians(MathAtan(value)) >>)

\* arcsec that also rejects the values 1 and -1.
arcsecRejectingOne(value) ==
    IF value >= -Scale /\ value <= Scale THEN DomainError
    ELSE Solutions(FromAcos(MathAcos(Reciprocal(value))))

arcsec(value) ==
    IF value > -Scale /\ value < Scale THEN DomainError
    ELSE Solutions(FromAcos(MathAcos(Reciprocal(value))))

arccsc(value) ==
    IF value > -Scale /\ value < Scale THEN DomainError
    ELSE Solutions(FromAsin(MathAsin(Reciprocal(value))))

arccot(value) ==
    IF Abs(value) < ZERO_TOLERANCE
    THEN [throws |-> FALSE, solutions |-> << fromRadians(MulRatio(PI, 1, 2)) >>]
    ELSE LET atanValue == MathAtan(Reciprocal(value))
         IN  Solutions(<< fromRadians(IF value > 0 THEN atanValue
                                      ELSE Fl(atanValue + PI)) >>)

-----------------------------------------------------------------------------
(* Calls of the pure functions of the core.  calc records one call: the     *)
(* function, its arguments and its result.                                   *)

NoCall == [op |-> "none"]

\* The texts handed to parseAngleInput: every text of at most MaxTextLen
\* characters over ParserAlphabet, and the longer texts of ParserTexts.
MaxTextLen == 3
ParserAlphabet == { "π", "/", "0", "3", "-", ".", " ", "°" }
ShortTexts == UNION { [1 .. n -> ParserAlphabet] : n \in 0 .. MaxTextLen }
LongTexts ==
    { << "π", "/", "0", ".", "0", "0", "0", "1" >>,
      << "π", "/", "0", ".", "0", "0", "0", "0", "1" >>,
      << "π", "/", "0", ".", "0" >>,
      << " ", "π", " ", "/", " ", "0", ".", "0", " " >>, << "p", "i", "/", "6" >>,
      << "P", "I", " ", "/", " ", "4" >>, << "P", "i", "/", "2" >>,
      << "3", "0", "d", "e", "g" >>,
      << "3", "0", " ", "D", "e", "g", "r", "e", "e", "s" >>,
      << "4", "5", "d", "e", "g", "r", "e", "e" >>,
      << "1", ".", "5", "r", "a", "d" >>,
      << "-", "3", "r", "a", "d", "i", "a", "n", "s" >>,
      << "2", " ", "R", "A", "D" >>, << "3", "0", "d", "e", "g", "s" >>,
      << "9", "9", "9", "9", "9", "9" >>,
      << "-", "9", "9", "9", "9", "9", "9" >>,
      << "9", "9", "9", "9", "9", "9", "r", "a", "d" >>, << "2", "π" >>,
      << "3", "π", "/", "2" >>, << "a", "b", "c" >>, << "-", "9", "0" >>,
      << "3", "6", "0", ".", "0", "0" >>, << "1", ".", "5", "7", "0", "8" >>,
      << " ", "3", "0", " " >>, << "π", "/", "-", "2" >> }
ParserTexts == ShortTexts \cup LongTexts

CallParseAngleInput ==
    /\ calc = NoCall
    /\ \E input \in ParserTexts, currentUnit \in Units :
          calc' = [op |-> "parseAngleInput", input |-> input,
                   currentUnit |-> currentUnit,
                   result |-> parseAngleInput(input, currentUnit)]

\* The values handed to the inverse functions.
InverseValues ==
    { -2 * Scale, -15000, -10001, -Scale, -9999, -8660, -7071, -5000, -Tiny,
      0, Tiny, 5000, 7071, 8660, 9999, Scale, 10001, 15000, 2 * Scale }

InverseFunctions == { "arcsin", "arccos", "arctan", "arcsec", "arccsc", "arccot" }

\* new InverseTrigonometricValues(value, name) and the method fn of it.
InverseResult(fn, value) ==
    CASE fn = "arcsin" -> arcsin(value)
      [] fn = "arccos" -> arccos(value)
      [] fn = "arctan" -> arctan(value)
      [] fn = "arcsec" -> arcsec(value)
      [] fn = "arccsc" -> arccsc(value)
      [] fn = "arccot" -> arccot(value)

CallInverseTrig ==
    /\ calc = NoCall
    /\ \E fn \in InverseFunctions, value \in InverseValues :
          calc' = [op |-> fn, value |-> value, result |-> InverseResult(fn, value)]

\* The stored angles the controls are rendered with: angles as setAngle
\* stores them, and angles on both sides of the tolerances around zero and
\* the maximum.
SyncAngles ==
    { normalize(a) : a \in AngleInputs }
    \cup { Angle(Fl(v), "degrees") :
              v \in { 3000, 6000, FullTurnDeg - 6000, FullTurnDeg - 3000 } }
    \cup { Angle(Fl(v), "radians") :
              v \in { 50, 200, TWO_PI - 200, TWO_PI - 50 } }

\* The wasAtMax sync effect run again and again, as React runs it while
\* its dependencies change: the values of wasAtMax after the first three runs.
CallWasAtMaxEffect ==
    /\ calc = NoCall
    /\ \E angle \in SyncAngles, unit \in Units, atMax \in BOOLEAN :
          LET first  == wasAtMaxEffect(angle, unit, atMax)
              second == wasAtMaxEffect(angle, unit, first)
              third  == wasAtMaxEffect(angle, unit, second)
          IN  calc' = [op |-> "wasAtMaxEffect", angle |-> angle, unit |-> unit,
                       wasAtMax |-> atMax, result |-> << first, second, third >>]

CallNormalize ==
    /\ calc = NoCall
    /\ \E angle \in AngleInputs :
          calc' = [op |-> "normalize", angle |-> angle, result |-> normalize(angle)]

\* Finite slider values of a unit: below, at and above the point where the
\* slider counts as being at its maximum, and values outside the track.
SliderCallValues(unit) ==
    LET max == getDefaultSliderOptions(unit).max
        tol == IF unit = "degrees" THEN MAX_TOLERANCE_DEG ELSE MAX_TOLERANCE_RAD
        edge == Fl(max - tol)
    IN  { Fl(v) : v \in { -Scale, 0, tol, max \div 2, max - 2 * tol,
                          edge - 2 * Ulp(max), edge - Ulp(max), edge,
                          edge + Ulp(max), max - tol \div 2, max - Ulp(max),
                          max, max + tol, 2 * max } }

CallSliderValueToAngle ==
    /\ calc = NoCall
    /\ \E unit \in Units : \E value \in SliderCallValues(unit) :
          calc' = [op |-> "sliderValueToAngle", value |-> value, unit |-> unit,
                   result |-> sliderValueToAngle(value, unit)]

\* Clicks at whole pixels: the centre, on the circle, on and just beyond the
\* snap tolerances, far outside; and clicks a twenty-fifth of a pixel below the
\* horizontal axis, well inside and far outside the circle.
ClickPositions ==
    { [clientX |-> Px(p[1]), clientY |-> Px(p[2])] :
          p \in { << 200, 200 >>, << 350, 200 >>, << 200, 50 >>, << 50, 200 >>,
                  << 200, 380 >>, << 360, 200 >>, << 361, 200 >>,
                  << 370, 200 >>, << 290, 80 >>, << 296, 72 >>,
                  << 650, 200 >> } }
    \cup { [clientX |-> Px(x), clientY |-> Fl(Px(200) + Scale \div 25)] :
              x \in { 300, 650 } }

SnapTolerances == { Px(t) : t \in { 0, 10, 20 } }

CallHandleCircleClick ==
    /\ calc = NoCall
    /\ \E ev \in ClickPositions, snapToCircle \in BOOLEAN,
          snapTolerance \in SnapTolerances :
          calc' = [op |-> "handleCircleClick", event |-> ev,
                   snapToCircle |-> snapToCircle, snapTolerance |-> snapTolerance,
                   result |-> handleCircleClick(ev, snapToCircle, snapTolerance)]

\* The six values of TrigonometricValues at the stored angles, and numbers
\* passed as they are.
TrigFunctions == { "sin", "cos", "tan", "cot", "sec", "csc" }
TrigResult(fn, angle) ==
    CASE fn = "sin" -> Number(sin(angle))
      [] fn = "cos" -> Number(cos(angle))
      [] fn = "tan" -> tan(angle)
      [] fn = "cot" -> cot(angle)
      [] fn = "sec" -> sec(angle)
      [] fn = "csc" -> csc(angle)
TrigValues ==
    { TrigResult(fn, normalize(a)) : fn \in TrigFunctions, a \in AngleInputs }
    \cup { Number(v) : v \in { 0, Tiny, -Tiny, -Scale, 123456789 } }
    \cup { Undefined }

CallFormatTrigValue ==
    /\ calc = NoCall
    /\ \E value \in TrigValues, precision \in { 2, 4 } :
          calc' = [op |-> "formatTrigValue", value |-> value,
                   precision |-> precision,
                   result |-> formatTrigValue(value, precision)]

\* Numbers typed into the angle field: the stored values, many turns, and a
\* value just below a whole number of turns.
OriginalValues ==
    AngleValues \cup { Fl(v) : v \in { 20000 * Scale, -450 * Scale, 27 * TWO_PI - 16,
                                        17 * TWO_PI, FullTurnDeg + 50, -50 } }

CallDetectNormalization ==
    /\ calc = NoCall
    /\ \E original \in OriginalValues, unit \in Units :
          LET normalized == normalize(Angle(original, unit))
          IN  calc' = [op |-> "detectNormalization", original |-> original,
                       unit |-> unit, normalized |-> normalized,
                       result |-> detectNormalization(original, normalized, unit)]

\* The angle field's text for a stored angle, committed as it is:
\* formatAngleForInput, then parseAngleInput in the same unit.
CallFormatThenParse ==
    /\ calc = NoCall
    /\ \E a \in AngleInputs, unit \in Units :
          LET angle == normalize(a)
              text  == formatAngleForInput(angle, unit)
          IN  calc' = [op |-> "formatThenParse", angle |-> angle, unit |-> unit,
                       text |-> text, result |-> parseAngleInput(text, unit)]

\* The caller has used the result; the next call can be made.
Return ==
    /\ calc # NoCall
    /\ calc' = NoCall

CalcInit == calc = NoCall

CalcNext ==
    \/ CallParseAngleInput /\ UNCHANGED << storeVars, dragVars, controlVars, viewVars >>
    \/ CallInverseTrig /\ UNCHANGED << storeVars, dragVars, controlVars, viewVars >>
    \/ CallNormalize /\ UNCHANGED << storeVars, dragVars, controlVars, viewVars >>
    \/ CallSliderValueToAngle /\ UNCHANGED << storeVars, dragVars, controlVars, viewVars >>
    \/ CallHandleCircleClick /\ UNCHANGED << storeVars, dragVars, controlVars, viewVars >>
    \/ CallFormatTrigValue /\ UNCHANGED << storeVars, dragVars, controlVars, viewVars >>
    \/ CallDetectNormalization /\ UNCHANGED << storeVars, dragVars, controlVars, viewVars >>
    \/ CallFormatThenParse /\ UNCHANGED << storeVars, dragVars, controlVars, viewVars >>
    \/ CallWasAtMaxEffect /\ UNCHANGED << storeVars, dragVars, controlVars, viewVars >>
    \/ Return /\ UNCHANGED << storeVars, dragVars, controlVars, viewVars >>

-----------------------------------------------------------------------------
(* components/FormulaView and formulas/formulaRegistry *)

levelOrder == << "highSchool", "college", "graduate" >>
indexOf(list, x) == CHOOSE i \in 1 .. Len(list) : list[i] = x

\* The difficulty each registered formula declares; both are among the
\* enabledFormulas of every DIFFICULTY_CONFIGS entry.
formulaDifficulty == [ id \in FormulaIds |-> "highSchool" ]

getByDifficultyLevel(level) ==
    { id \in FormulaIds :
        indexOf(levelOrder, formulaDifficulty[id]) <= indexOf(levelOrder, level) }

availableFormulas == getByDifficultyLevel(difficultyLevel)
missingFormulas == availableFormulas \ enabledFormulas

formulasToDisplay ==
    IF formulaViewMode = "single"
    THEN IF selectedFormula # NoFormula THEN {selectedFormula} ELSE {}
    ELSE IF formulaViewMode = "multiple" THEN availableFormulas
    ELSE availableFormulas \cap enabledFormulas

\* The hybrid-mode effect has work to do after the last render.
EffectDue == formulaViewMode = "hybrid" /\ missingFormulas # {}

\* The effect: setFormulaEnabled(id, true) for every missing formula.
HybridEffect ==
    /\ EffectDue
    /\ enabledFormulas' = enabledFormulas \cup missingFormulas
    /\ UNCHANGED << currentAngle, angleUnit, activeView, selectedFormula,
                    difficultyLevel, formulaViewMode, unticked >>

\* React runs the effects of a render before it handles the next event.
\* The user ticks or unticks the checkbox of a formula (hybrid mode).
CheckboxChange ==
    /\ ~EffectDue
    /\ formulaViewMode = "hybrid"
    /\ \E f \in availableFormulas :
          /\ toggleFormula(f)
          /\ unticked' = IF f \in enabledFormulas THEN unticked \cup {f}
                         ELSE unticked \ {f}

ViewModeChange ==
    /\ ~EffectDue
    /\ \E m \in FormulaViewModes : setFormulaViewMode(m)
    /\ unticked' = {}

FormulaSelectChange ==
    /\ ~EffectDue
    /\ formulaViewMode = "single"
    /\ \E f \in availableFormulas \cup {NoFormula} : setSelectedFormula(f)
    /\ UNCHANGED unticked

DifficultyChange ==
    /\ ~EffectDue
    /\ \E l \in DifficultyLevels : setDifficultyLevel(l)
    /\ unticked' = {}

\* The angle changes while the formulas are shown.
AngleChange ==
    /\ ~EffectDue
    /\ \E a \in AngleInputs : setAngle(a)
    /\ UNCHANGED unticked

FormulaViewInit == unticked = {}

FormulaViewNext ==
    \/ HybridEffect /\ UNCHANGED << dragVars, controlVars, calcVars, circleViewVars >>
    \/ CheckboxChange /\ UNCHANGED << dragVars, controlVars, calcVars, circleViewVars >>
    \/ ViewModeChange /\ UNCHANGED << dragVars, controlVars, calcVars, circleViewVars >>
    \/ FormulaSelectChange /\ UNCHANGED << dragVars, controlVars, calcVars, circleViewVars >>
    \/ DifficultyChange /\ UNCHANGED << dragVars, controlVars, calcVars, circleViewVars >>
    \/ AngleChange /\ UNCHANGED << dragVars, controlVars, calcVars, circleViewVars >>

CircleViewInit ==
    /\ wasDragging = FALSE
    /\ effectIsDragging = FALSE
    /\ resetTimers = 0

\* Pending setTimeout callbacks of the view at most.
MaxResetTimers == 2

\* Where the user clicks the circle.
ClickTargets == Positions \cup { [clientX |-> Px(50), clientY |-> Px(200)] }

\* The callback the view hands to createDragHandler, run by every call of
\* onAngleChange the drag handler's step makes:
\* isDragging = true; setWasDragging(true); setAngle(angle).
onAngleChange ==
    IF calls' # calls
    THEN /\ effectIsDragging' = TRUE
         /\ wasDragging' = TRUE
         /\ setAngle(calls'[Len(calls')].angle)
    ELSE UNCHANGED << effectIsDragging, wasDragging, storeVars >>

\* The view's own pointerup listener, added after the drag handler's and so
\* run after it on the same event: if (isDragging) setTimeout(..., 0).
viewPointerUp ==
    IF effectIsDragging'
    THEN /\ resetTimers < MaxResetTimers
         /\ resetTimers' = resetTimers + 1
    ELSE UNCHANGED resetTimers

\* The timer callback: setWasDragging(false); isDragging = false.
resetWasDragging ==
    /\ resetTimers > 0
    /\ resetTimers' = resetTimers - 1
    /\ wasDragging' = FALSE
    /\ effectIsDragging' = FALSE
    /\ UNCHANGED << storeVars, dragVars >>

\* The angle handleSvgClick gets for a click:
\* handleCircleClick(event, svg, { snapToCircle: true, snapTolerance: 10 }).
clickAngle == [ ev \in ClickTargets |-> handleCircleClick(ev, TRUE, Px(10)) ]

\* handleSvgClick(event) of the mounted view.
handleSvgClick ==
    /\ attached
    /\ \E ev \in ClickTargets :
          IF wasDragging
          THEN UNCHANGED storeVars
          ELSE LET angle == clickAngle[ev]
               IN  IF angle # NoAngle THEN setAngle(angle)
                   ELSE UNCHANGED storeVars
    /\ UNCHANGED << dragVars, circleViewVars >>

CirclePointerDown == handlePointerDown /\ onAngleChange /\ UNCHANGED resetTimers
CirclePointerMove == handlePointerMove /\ onAngleChange /\ UNCHANGED resetTimers
CirclePointerUp == handlePointerUp /\ onAngleChange /\ viewPointerUp
CirclePointerCancel == handlePointerCancel /\ onAngleChange /\ UNCHANGED resetTimers
CircleAnimationFrame == AnimationFrame /\ onAngleChange /\ UNCHANGED resetTimers
CircleTick == Tick /\ UNCHANGED << storeVars, circleViewVars >>
\* The effect's cleanup: cleanup() and removeEventListener('pointerup', ...).
CircleUnmount == cleanup /\ UNCHANGED << storeVars, circleViewVars >>

CircleViewNext ==
    \/ CirclePointerDown /\ UNCHANGED << controlVars, calcVars, formulaViewVars >>
    \/ CirclePointerMove /\ UNCHANGED << controlVars, calcVars, formulaViewVars >>
    \/ CirclePointerUp /\ UNCHANGED << controlVars, calcVars, formulaViewVars >>
    \/ CirclePointerCancel /\ UNCHANGED << controlVars, calcVars, formulaViewVars >>
    \/ CircleAnimationFrame /\ UNCHANGED << controlVars, calcVars, formulaViewVars >>
    \/ resetWasDragging /\ UNCHANGED << controlVars, calcVars, formulaViewVars >>
    \/ handleSvgClick /\ UNCHANGED << controlVars, calcVars, formulaViewVars >>
    \/ CircleTick /\ UNCHANGED << controlVars, calcVars, formulaViewVars >>
    \/ CircleUnmount /\ UNCHANGED << controlVars, calcVars, formulaViewVars >>

ViewInit == FormulaViewInit /\ CircleViewInit

-----------------------------------------------------------------------------
(* Specifications *)

Init == initialState /\ DragInit /\ ControlsInit /\ CalcInit /\ ViewInit

StoreNext ==
    \/ StoreSetAngle
    \/ StoreSetAngleUnit
    \/ StoreSetActiveView
    \/ StoreSetSelectedFormula
    \/ StoreSetDifficultyLevel
    \/ StoreSetFormulaViewMode
    \/ StoreToggleFormula
    \/ StoreSetFormulaEnabled

\* The store under every sequence of its operations.
Spec == Init /\ [][StoreNext]_vars

\* The drag handler under every sequence of pointer events, animation frames
\* and clock ticks.
DragSpec == Init /\ [][DragNext]_vars

\* The angle controls under every sequence of user input, timers and
\* renders.
ControlsSpec == Init /\ [][ControlsNext]_vars

MessagesNext ==
    \/ ControlsNext
    \/ ErrorElsewhere /\ UNCHANGED << dragVars, calcVars, viewVars >>

\* The angle controls while errors are reported from elsewhere too.
MessagesSpec == Init /\ [][MessagesNext]_vars

\* The pure functions of the core on every argument of the bounded sets.
CalcSpec == Init /\ [][CalcNext]_vars

\* The formula view under every sequence of its controls' events, each render's
\* effect run before the next event.
FormulaViewSpec == Init /\ [][FormulaViewNext]_vars

\* The unit circle view: the drag handler, the view's callback, listener and
\* timers, and clicks on the circle.
CircleViewSpec == Init /\ [][CircleViewNext]_vars

-----------------------------------------------------------------------------
(* Properties of the store *)

IsNormalized(a) ==
    /\ 0 <= a.value
    /\ a.value < (IF a.unit = "radians" THEN TWO_PI ELSE FullTurnDeg)

\* C1: after any sequence of store operations the stored currentAngle is
\* normalized: 0 <= value < 360 in degrees, 0 <= value < 2*pi in radians.
C1_StoredAngleNormalized == IsNormalized(currentAngle)

-----------------------------------------------------------------------------
(* Properties of the drag handler *)

\* C2: a primary-button or touch pointer-down received while idle starts the
\* drag and calls onAngleChange with the angle of the pointer-down position
\* inside the pointer-down handler, not in a later animation frame.
C2_PointerDownEmitsImmediately ==
    [][ (~isDragging /\ event'.type = "pointerdown" /\ event' # event)
          => /\ isDragging'
             /\ Len(calls') = Len(calls) + 1
             /\ calls'[Len(calls')].seq = event'.seq
             /\ calls'[Len(calls')].angle = eventAngle(event') ]_vars

\* C3: the handling of a pointer-move calls onAngleChange only if at least
\* minFrameTime has passed since every earlier emission of the same gesture,
\* whether or not a deferred callback is pending.
C3_MoveEmissionThrottled ==
    [][ (event'.type = "pointermove" /\ event' # event /\ calls' # calls)
          => \A i \in 1 .. Len(calls) :
                 calls[i].gesture = event'.gesture
                     => now - calls[i].time >= minFrameTime ]_vars

\* C4: a deferred callback that emits, emits the most recent pointer event
\* received, and onAngleChange never receives an older pointer position
\* after a newer one.
C4_EmissionsInEventOrder ==
    [][ calls' # calls
          => /\ (event' = event => calls'[Len(calls')].seq = event.seq)
             /\ \A i \in 1 .. Len(calls) :
                    calls[i].seq <= calls'[Len(calls')].seq ]_vars

\* C5: once pointer-up or pointer-cancel has been handled no deferred
\* callback is pending, and onAngleChange is not called while the handler
\* stays idle.
C5_NoCallbackAfterGestureEnd ==
    [][ /\ (isDragging /\ ~isDragging' /\ attached') => frames' = {}
        /\ (~isDragging /\ ~isDragging') => calls' = calls ]_vars

\* C6: handling pointer-up while dragging calls onAngleChange exactly once,
\* with the angle of the pointer-up position, inside the handler.
C6_PointerUpEmitsImmediately ==
    [][ (event'.type = "pointerup" /\ event' # event)
          => /\ Len(calls') = Len(calls) + 1
             /\ calls'[Len(calls')].seq = event'.seq
             /\ calls'[Len(calls')].angle = eventAngle(event') ]_vars

\* C7: once every gesture has ended and no callback is left to run, each
\* pointer-up position has been emitted, and it is the last emission of its
\* gesture.
C7_PointerUpEventuallyEmittedLast ==
    (attached /\ ~isDragging /\ frames = {})
        => \A u \in ups :
              \E i \in 1 .. Len(calls) :
                  /\ calls[i].seq = u
                  /\ \A j \in (i + 1) .. Len(calls) :
                         calls[j].gesture # calls[i].gesture

\* C8: at most one animation-frame callback is outstanding, and
\* animationFrameId is non-null exactly when one is.
C8_AtMostOneFrameOutstanding ==
    /\ Cardinality(frames) <= 1
    /\ animationFrameId # Null <=> frames # {}
    /\ \A f \in frames : f.id = animationFrameId

\* A pointer-move has arrived while a callback requested for an earlier
\* event is still outstanding.
C8_MoveWhileCallbackPending ==
    /\ isDragging
    /\ event.type = "pointermove"
    /\ \E f \in frames : f.event.seq < event.seq

-----------------------------------------------------------------------------
(* Properties of the angle controls *)

\* The stored angle is zero and the slider shows the maximum of its unit.
AtMaxShown ==
    /\ currentAngle.value = 0
    /\ sliderValue = getDefaultSliderOptions(angleUnit).max

\* The top value of the slider: 360 in degrees, the top step in radians.
TopValue == Fl(TopStep(angleUnit) * getDefaultSliderOptions(angleUnit).step)

SliderMovedToMax == handleSliderChange(TopValue)
SliderMovedElsewhere ==
    \E value \in SliderValues(angleUnit) \ {TopValue} : handleSliderChange(value)
PresetOtherThan360Pressed ==
    \E degrees \in PRESET_ANGLES \ {360} : handlePresetClick(degrees)

RejectedCommit ==
    /\ InputBlur \/ handleInputKeyPress("Enter")
    /\ ~parseAngleInput(inputValue, angleUnit).throws
    /\ parseAngleInput(inputValue, angleUnit).error # NoError

\* C10: a commit of rejected text leaves currentAngle and angleUnit as they
\* were, resets the field to the formatted current angle and sets the inline
\* error; no effect is left to run that would undo it.
C10_RejectedCommitRestoresField ==
    [][ RejectedCommit
          => /\ currentAngle' = currentAngle
             /\ angleUnit' = angleUnit
             /\ inputValue' = formatAngleForInput(currentAngle, angleUnit)
             /\ inputError' # NoError
             /\ ~RenderPending' ]_vars

\* A text of no accepted format was committed after the angle had been
\* changed: the field shows the formatted angle and the error is set.
C10_RejectedCommitDone ==
    /\ inputError.kind = "invalidFormat"
    /\ currentAngle.value # 0
    /\ inputValue = formatAngleForInput(currentAngle, angleUnit)
    /\ userMessage.type = "error"

-----------------------------------------------------------------------------
(* Properties of the parser *)

ParseCalled == calc.op = "parseAngleInput"

\* C11: for every input text and every current unit parseAngleInput returns
\* normally, with exactly one of angle and error non-null.
C11_ParseNeverThrows ==
    ParseCalled =>
        /\ ~calc.result.throws
        /\ (calc.result.angle = NoAngle) # (calc.result.error = NoError)

\* A text that is a number written with zero digits only.
IsZeroText(d) == \A i \in 1 .. Len(d) : d[i] \in { "0", "." }

MatchesNoGrammar(trimmed) ==
    /\ piFractionMatch(trimmed) = {}
    /\ unitMatch(trimmed) = {}
    /\ ~MatchesNumber(trimmed)

\* C12: parseAngleInput reports failures in a fixed order: an empty or
\* whitespace-only input gives the 'cannot be empty' error; a pi-fraction
\* whose denominator is zero gives the 'Cannot divide by zero' error and no
\* Angle; every other input that matches no grammar gives the 'Invalid angle
\* format' error, which quotes the input.
C12_ParseFailureOrder ==
    ParseCalled =>
        LET trimmed == trim(calc.input)
            r       == calc.result
        IN  /\ AllSpaces(calc.input) =>
                  r = Rejected("empty", << >>)
            /\ (\E d \in piFractionMatch(trimmed) : IsZeroText(d)) =>
                  r = Rejected("divideByZero", << >>)
            /\ (~AllSpaces(calc.input) /\ MatchesNoGrammar(trimmed)) =>
                  r = Rejected("invalidFormat", calc.input)

\* A pi-fraction with a zero denominator has been parsed, with spaces around
\* the slash or the text.
C12_ZeroDenominatorRejected ==
    /\ ParseCalled
    /\ calc.result.error.kind = "divideByZero"
    /\ \E i \in 1 .. Len(calc.input) : calc.input[i] = " "

\* The unit a suffix names.
SuffixUnit(word) ==
    IF toLowerCase(word)[1] \in { "d", "°" } THEN "degrees" ELSE "radians"

\* C13: on success the unit of the Angle is fixed by the grammar that
\* matched: a pi-fraction yields radians, a suffixed number yields the unit
\* its suffix names whatever currentUnit is, and only a plain number takes
\* currentUnit.
C13_UnitFixedByGrammar ==
    (ParseCalled /\ calc.result.angle # NoAngle) =>
        LET trimmed == trim(calc.input)
            unit    == calc.result.angle.unit
        IN  IF piFractionMatch(trimmed) # {}
            THEN unit = "radians"
            ELSE IF unitMatch(trimmed) # {}
            THEN \A m \in unitMatch(trimmed) : unit = SuffixUnit(m[2])
            ELSE MatchesNumber(trimmed) /\ unit = calc.currentUnit

\* A number with a degree suffix has been parsed while the current unit was
\* radians.
C13_SuffixAgainstCurrentUnit ==
    /\ ParseCalled
    /\ calc.currentUnit = "radians"
    /\ unitMatch(trim(calc.input)) # {}
    /\ calc.result.angle = Angle(30 * Scale, "degrees")

-----------------------------------------------------------------------------
(* Properties of the inverse functions *)

MultiValued == { "arcsin", "arccos", "arcsec", "arccsc" }

\* The forward function of an inverse, at theta radians.
Forward(fn, theta) ==
    CASE fn = "arcsin" -> Number(sin(fromRadians(theta)))
      [] fn = "arccos" -> Number(cos(fromRadians(theta)))
      [] fn = "arcsec" -> sec(fromRadians(theta))
      [] fn = "arccsc" -> csc(fromRadians(theta))

\* theta solves forward(theta) = v to within tolerance.
IsSolution(fn, theta, v, tolerance) ==
    /\ ~Forward(fn, theta).null
    /\ Abs(Forward(fn, theta).value - v) <= tolerance

\* The multiples of PI/12 in [0, 2 PI).
SolutionGrid == { k * (PI \div 12) : k \in 0 .. 23 }

\* The distance of two angles of [0, 2 PI) on the circle.
CircularDistance(a, b) == Min(Abs(a - b), TWO_PI - Abs(a - b))

\* C14: the list returned by arcsin, arccos, arcsec or arccsc for a value of
\* the domain is exactly the set of the angles of [0, 2 PI) at which the
\* forward function equals the value: every returned angle is a solution in
\* that range (to within 0.01), and no solution in that range is missing
\* (each angle of the grid at which the forward function gives the value is
\* within 0.001 rad of a returned angle).
C14_InverseSolutionsExact ==
    (calc.op \in MultiValued /\ ~calc.result.throws) =>
        LET s == calc.result.solutions
        IN  /\ \A i \in 1 .. Len(s) :
                  /\ s[i].unit = "radians"
                  /\ IsNormalized(s[i])
                  /\ IsSolution(calc.op, s[i].value, calc.value, Scale \div 100)
            /\ \A theta \in SolutionGrid :
                  IsSolution(calc.op, theta, calc.value, 0) =>
                      \E i \in 1 .. Len(s) :
                          CircularDistance(s[i].value, theta) <= Scale \div 1000

\* C15: the inverse functions fail with a domain error exactly on invalid
\* input: arcsin and arccos throw if and only if the value is outside
\* [-1, 1], arcsec and arccsc if and only if |value| < 1, and arctan and
\* arccot never throw for a finite value.
C15_DomainErrorsExact ==
    calc.op \in InverseFunctions =>
        (calc.result.throws <=>
            \/ calc.op \in { "arcsin", "arccos" }
                 /\ (calc.value < -Scale \/ calc.value > Scale)
            \/ calc.op \in { "arcsec", "arccsc" } /\ Abs(calc.value) < Scale)

\* arcsec has been called on the edge of its domain and returned its
\* solution.
C15_ArcsecOnDomainEdge ==
    /\ calc.op = "arcsec"
    /\ calc.value = -Scale
    /\ ~calc.result.throws
    /\ calc.result.solutions = << fromRadians(PI) >>

-----------------------------------------------------------------------------
(* Properties of Angle *)

FullTurn(unit) == IF unit = "radians" THEN TWO_PI ELSE FullTurnDeg

\* C16: Angle.normalize returns an Angle of the same unit whose magnitude is
\* the input modulo the full turn: it lies in [0, full turn), it differs from
\* the input by a whole number of full turns (to within one rounding of the
\* sum), and a whole multiple of the full turn maps to 0.
C16_NormalizeIsModulo ==
    calc.op = "normalize" =>
        LET full == FullTurn(calc.angle.unit)
            d    == (calc.angle.value - calc.result.value) % full
        IN  /\ calc.result.unit = calc.angle.unit
            /\ 0 <= calc.result.value
            /\ calc.result.value < full
            /\ Min(d, full - d) <= Ulp(full)
            /\ (calc.angle.value % full = 0 => calc.result.value = 0)

-----------------------------------------------------------------------------
(* Properties of the store's setters *)

\* C17: setAngleUnit(u) with u different from the current unit sets
\* angleUnit to u and replaces currentAngle by an Angle of unit u that
\* denotes the same position on the circle (the same radian measure, to
\* within two roundings) and is normalized in unit u.
C17_UnitChangeKeepsPosition ==
    [][ \A u \in Units :
          (u # angleUnit /\ setAngleUnit(u)) =>
              /\ angleUnit' = u
              /\ currentAngle'.unit = u
              /\ IsNormalized(currentAngle')
              /\ CircularDistance(Rem(toRadians(currentAngle), TWO_PI),
                                  toRadians(currentAngle')) <= 2 * Ulp(TWO_PI)
      ]_vars

\* The angle pi radians has been converted to degrees.
C17_PiShownInDegrees ==
    /\ angleUnit = "degrees"
    /\ currentAngle = Angle(180 * Scale, "degrees")

\* C18: the pair (currentAngle, angleUnit) is changed only by setAngle and by
\* setAngleUnit with a unit different from the current one; setAngleUnit with
\* the current unit changes no field, and setActiveView, setSelectedFormula,
\* setDifficultyLevel, setFormulaViewMode, toggleFormula and
\* setFormulaEnabled each change only their own field.
C18_SettersChangeOwnFieldOnly ==
    [][ /\ << currentAngle, angleUnit >>' # << currentAngle, angleUnit >> =>
              \/ \E a \in AngleInputs : setAngle(a)
              \/ \E u \in Units : u # angleUnit /\ setAngleUnit(u)
        /\ setAngleUnit(angleUnit) => UNCHANGED storeVars
        /\ (\E v \in ActiveViews : setActiveView(v)) =>
              UNCHANGED << currentAngle, angleUnit, selectedFormula,
                           difficultyLevel, formulaViewMode, enabledFormulas >>
        /\ (\E f \in FormulaIds \cup {NoFormula} : setSelectedFormula(f)) =>
              UNCHANGED << currentAngle, angleUnit, activeView,
                           difficultyLevel, formulaViewMode, enabledFormulas >>
        /\ (\E l \in DifficultyLevels : setDifficultyLevel(l)) =>
              UNCHANGED << currentAngle, angleUnit, activeView,
                           selectedFormula, formulaViewMode, enabledFormulas >>
        /\ (\E m \in FormulaViewModes : setFormulaViewMode(m)) =>
              UNCHANGED << currentAngle, angleUnit, activeView,
                           selectedFormula, difficultyLevel, enabledFormulas >>
        /\ (\E f \in FormulaIds : toggleFormula(f)) =>
              UNCHANGED << currentAngle, angleUnit, activeView,
                           selectedFormula, difficultyLevel, formulaViewMode >>
        /\ (\E f \in FormulaIds, e \in BOOLEAN : setFormulaEnabled(f, e)) =>
              UNCHANGED << currentAngle, angleUnit, activeView,
                           selectedFormula, difficultyLevel, formulaViewMode >>
      ]_vars

\* Every kind of setter has acted: the angle, the unit and the other fields
\* differ from the initial state.
C18_EveryFieldSet ==
    /\ currentAngle.value # 0
    /\ angleUnit = "degrees"
    /\ activeView = "table"
    /\ selectedFormula # NoFormula
    /\ difficultyLevel = "graduate"
    /\ formulaViewMode = "single"
    /\ enabledFormulas = FormulaIds

\* C19: sliderValueToAngle maps every slider value within the at-max
\* tolerance of the maximum (value >= 360 - 0.5 in degrees, value >=
\* 2π - 0.01 in radians) to the zero angle of that unit, and every other value
\* v to Angle(v, unit) unchanged.
C19_SliderAtMaxIsZero ==
    calc.op = "sliderValueToAngle" =>
        LET tolerance == IF calc.unit = "degrees" THEN Scale \div 2
                         ELSE Scale \div 100
        IN  IF calc.value >= Fl(FullTurn(calc.unit) - tolerance)
            THEN calc.result = Angle(0, calc.unit)
            ELSE calc.result = Angle(calc.value, calc.unit)

\* A radian slider value below the maximum, but within the tolerance of it,
\* became the zero angle.
C19_NearMaxBecameZero ==
    /\ calc.op = "sliderValueToAngle"
    /\ calc.unit = "radians"
    /\ calc.value < TWO_PI
    /\ calc.value > 0
    /\ calc.result = Angle(0, "radians")

\* A length in tenths of a pixel; the clicks made lie on whole pixels, or
\* less than a twentieth of a pixel from one and far from every boundary.
TenthsOfPixel(v) == (Abs(v) + Scale \div 20) \div (Scale \div 10)

ClickIsBeyondTolerance ==
    LET dx == TenthsOfPixel(calc.event.clientX - Px(SVG_CENTER_X))
        dy == TenthsOfPixel(calc.event.clientY - Px(SVG_CENTER_Y))
        r  == TenthsOfPixel(Px(SVG_RADIUS) + calc.snapTolerance)
    IN  dx * dx + dy * dy > r * r

\* C20: handleCircleClick returns null exactly when the click lies more than
\* SVG_RADIUS + snapTolerance pixels from the centre and snapToCircle is
\* false; in every other case, a click exactly at the centre included, it
\* returns an Angle, and that angle lies in [0, 2π) radians.
C20_ClickIgnoredOrInRange ==
    calc.op = "handleCircleClick" =>
        /\ (calc.result = NoAngle) <=>
               (ClickIsBeyondTolerance /\ ~calc.snapToCircle)
        /\ calc.result # NoAngle =>
               /\ calc.result.unit = "radians"
               /\ 0 <= calc.result.value
               /\ calc.result.value < TWO_PI

\* Text of a number as toFixed writes it: an optional sign, digits, and
\* optionally a point followed by digits.
IsNumericText(text) ==
    LET body == IF Len(text) > 0 /\ text[1] = "-" THEN Tail(text) ELSE text
        points == { i \in 1 .. Len(body) : body[i] = "." }
    IN  /\ Len(body) > 0
        /\ \A i \in 1 .. Len(body) : IsDigit(body[i]) \/ body[i] = "."
        /\ Cardinality(points) <= 1
        /\ \A i \in points : 1 < i /\ i < Len(body)

\* C21: formatTrigValue returns the text 'undefined' exactly when its input
\* is null; for every numeric input, 0 and magnitudes below the display
\* threshold included, it returns numeric text.
C21_UndefinedTextOnlyForNull ==
    calc.op = "formatTrigValue" =>
        /\ (calc.result = UndefinedText) <=> calc.value.null
        /\ ~calc.value.null => IsNumericText(calc.result)

\* A value of zero was formatted and shown as the digit 0.
C21_ZeroShownAsNumber ==
    /\ calc.op = "formatTrigValue"
    /\ ~calc.value.null
    /\ calc.value.value = 0
    /\ calc.result = << "0" >>

\* Floor of the exact quotient a / b, for b > 0.
FloorOfQuotient(a, b) == a \div b

\* C22: detectNormalization(original, normalized, unit), where normalized is
\* the normalization of original in that unit, reports wasNormalized = true
\* exactly when original lies outside [0, full turn) by more than the
\* tolerance, with rotations = floor(original / full turn) so that original =
\* normalized + rotations * full turn; when original is already in range it
\* reports wasNormalized = false, rotations = 0 and an empty message.
C22_DetectsWholeTurns ==
    calc.op = "detectNormalization" =>
        LET full == FullTurn(calc.unit)
            tolerance == IF calc.unit = "degrees" THEN Scale \div 100
                         ELSE Scale \div 10000
            outside == \/ calc.original < -tolerance
                       \/ calc.original > full + tolerance
            inRange == 0 <= calc.original /\ calc.original < full
        IN  /\ calc.result.wasNormalized <=> outside
            /\ calc.result.wasNormalized =>
                  /\ calc.result.rotations = FloorOfQuotient(calc.original, full)
                  /\ Abs(calc.original - (calc.normalized.value
                                          + calc.result.rotations * full))
                         <= tolerance
            /\ inRange => /\ ~calc.result.wasNormalized
                          /\ calc.result.rotations = 0
                          /\ calc.result.message = NoMessage

\* C23: a pointer-down from a non-touch pointer whose button is not the
\* primary one does not start a drag: the handler stays as it was, captures
\* no pointer and calls nothing; and while the handler is idle, later
\* pointer-moves and pointer-ups call nothing either.
C23_SecondaryButtonIgnored ==
    [][ /\ (\E pos \in Positions, button \in Buttons \ {0},
               pointerType \in PointerTypes \ {"touch"}, pointerId \in PointerIds :
               pointerDown(pos, button, pointerType, pointerId)) =>
              UNCHANGED << isDragging, captured, calls, frames,
                           animationFrameId, lastUpdateTime >>
        /\ (~isDragging /\ (handlePointerMove \/ handlePointerUp)) =>
              /\ ~isDragging'
              /\ UNCHANGED << captured, calls, frames, animationFrameId >>
      ]_vars

\* A secondary-button pointer-down was dispatched to a fresh handler, time
\* has passed, and the handler is idle with nothing captured and no call made.
C23_RightButtonDownLeftIdle ==
    /\ ignoredDown
    /\ now > 0
    /\ ~isDragging
    /\ captured = {}
    /\ frames = {}
    /\ calls = << >>

\* C24: after the cleanup function returned by createDragHandler has been
\* called, onAngleChange is never called again, whatever pointer events
\* arrive afterwards and whether or not a deferred callback was pending or a
\* drag was in progress at the moment of cleanup.
C24_NoCallAfterCleanup ==
    [][ (~attached \/ cleanup) => calls' = calls ]_vars

\* Cleanup came in the middle of a drag whose pointer-down had deferred its
\* update to a frame: the pointer is still captured, a frame had been
\* requested, and no call was ever made.
C24_CleanedUpMidDrag ==
    /\ ~attached
    /\ captured # {}
    /\ nextFrameId > 1
    /\ calls = << >>
    /\ now > 0

\* C25: for every stored (normalized) angle and display unit, the text that
\* formatAngleForInput produces is accepted by parseAngleInput in that unit
\* and parses to an angle equal to the stored one within the angle tolerance.
C25_FormattedTextParsesBack ==
    calc.op = "formatThenParse" =>
        /\ ~calc.result.throws
        /\ calc.result.error = NoError
        /\ calc.result.angle # NoAngle
        /\ Abs(toRadians(calc.result.angle) - toRadians(calc.angle))
               <= ANGLE_TOLERANCE

\* C26: in hybrid formula mode, when the user unticks an enabled formula,
\* that id leaves enabledFormulas and the displayed list and stays out until
\* the user ticks it again or the view mode or difficulty level changes.
C26_UntickedStaysOut ==
    /\ unticked \cap enabledFormulas = {}
    /\ unticked \cap formulasToDisplay = {}

\* C27: once a gesture has ended (its pointer-up or pointer-cancel handled)
\* and every pending timer and animation frame has run, the mounted view's
\* wasDragging is false, so handleSvgClick processes the next click.
GestureSettled ==
    /\ attached
    /\ event.type \in {"pointerup", "pointercancel"}
    /\ ~isDragging
    /\ frames = {}
    /\ resetTimers = 0
C27_WasDraggingClearedAfterGesture == GestureSettled => ~wasDragging

\* C28: the clear timer started for one message clears only that message: a
\* timer callback that takes the shown message off the display belongs to a
\* timer started when that message was shown.
C28_TimerClearsOwnMessage ==
    [][ (/\ Len(timers') = Len(timers) - 1
         /\ userMessage # NoMessage
         /\ userMessage' = NoMessage)
        => \E i \in 1 .. Len(timers) :
              /\ timers' = SubSeq(timers, 1, i - 1) \o SubSeq(timers, i + 1, Len(timers))
              /\ timers[i].shown = userMessage ]_vars

\* C29: the solutions arcsin, arccos, arcsec and arccsc return for a value of
\* the domain, the extreme values 1 and -1 included, are pairwise distinct
\* angles: no angle is in the list twice.
C29_SolutionsPairwiseDistinct ==
    (calc.op \in MultiValued /\ ~calc.result.throws) =>
        LET s == calc.result.solutions
        IN  \A i, j \in 1 .. Len(s) : i # j => s[i] # s[j]

\* C30: the wasAtMax sync effect stabilises: from every stored angle, unit
\* and starting wasAtMax it changes wasAtMax at most once, after which
\* wasAtMax equals the at-max test of the displayed slider value.
C30_WasAtMaxEffectStabilises ==
    calc.op = "wasAtMaxEffect" =>
        /\ calc.result[2] = calc.result[1]
        /\ calc.result[3] = calc.result[1]
        /\ calc.result[1] =
               isAtMax(angleToSliderValue(calc.angle, calc.unit, calc.result[1]),
                       calc.unit)

\* The effect has changed wasAtMax: the slider was taken to be at its
\* maximum and the angle is away from zero, or the reverse.
C30_EffectChangedWasAtMax ==
    /\ calc.op = "wasAtMaxEffect"
    /\ calc.result[1] # calc.wasAtMax

====
